---------------------------- MODULE Spec2Model ----------------------------
(***************************************************************************)
(* Model of the account pool (app/core/account_pool.py), the admission     *)
(* gate (app/core/semaphore.py) and the failover orchestration of the      *)
(* request handlers (app/api/routes.py).                                   *)
(*                                                                         *)
(* The handlers are asyncio coroutines: a coroutine runs without           *)
(* interruption until it awaits something that is not ready (a backend     *)
(* call, a download).  `running` holds the coroutine that owns the event   *)
(* loop; only the wall clock (`now`) moves while a coroutine runs.         *)
(*                                                                         *)
(* The video task manager (app/core/video_tasks.py) is modelled with its   *)
(* store file: each mutation of the task table is one critical section     *)
(* that ends with a write to a temporary file and a rename over the store, *)
(* and the process may die and restart between any two of these steps.     *)
(*                                                                         *)
(* The HTTP image client (app/core/http_generator.py) is modelled with its *)
(* session bootstrap and cookie rotation, the selection of the auth cookie *)
(* pair, the classification of response statuses and the decoder of the    *)
(* length-prefixed frames of the generate response.                        *)
(***************************************************************************)
EXTENDS Integers, FiniteSets, Sequences, TLC

(***************************************************************************)
(* Bounds of the model.                                                    *)
(***************************************************************************)
MaxTime == 2            \* the wall clock runs from 0 to MaxTime
MaxSeconds == 2         \* largest cooldown length handed to mark_cooldown
MaxPerAccount == 2      \* largest per_account_concurrent the pool is built with
MaxConcurrent == 2      \* largest max_concurrent the gate is built with
MaxHeld == 3            \* leases a pool client keeps outstanding at once

(***************************************************************************)
(* Values.                                                                 *)
(***************************************************************************)
NoneT == -1                          \* Python's None for a float | None field
NoId == "none"                       \* no account id / no lease
AllIds == {"a", "b"}                 \* account ids
AccountSources == {{"a"}, {"a", "b"}} \* account_sources AccountPool() may be given

Procs == {"p1", "p2"}                \* request coroutines in flight
NoProc == "none"                     \* the event loop runs no request coroutine
Kinds == {"image", "video"}          \* generate_image / generate_video

Max(x, y) == IF x >= y THEN x ELSE y

\* HTTPException values: status code, error code and the account whose
\* backend raised it (the identity of the exception object).
Exc(status, code, by) == [status |-> status, code |-> code, by |-> by]
NoExc == Exc(0, "none", NoId)

VARIABLES
    now,                       \* time.time()
    per_account_concurrent,    \* AccountPool._per_account_concurrent
    accounts,                  \* AccountPool._accounts: id -> AccountState
    held,                      \* pool client: leases returned and not yet released, per id
    stale,                     \* pool client: those of them PoolReplace knows a replaced entry granted
    ret,                       \* pool client: outcome of the last pool call
    lastMark,                  \* per id: end of the window of the last mark_cooldown call, NoneT once cleared
    max_concurrent,            \* ConcurrencyManager._max_concurrent
    gate,                      \* ConcurrencyManager: _semaphore value and _active_tasks
    proc,                      \* per request coroutine: position and locals
    running                    \* the coroutine that owns the event loop, or NoProc

poolVars == <<per_account_concurrent, accounts, lastMark>>
clientVars == <<held, stale, ret>>
appVars == <<max_concurrent, gate, proc, running>>
\* VideoTaskManager (video_tasks.py), its store file and its coroutines
VARIABLES
    tasks,                     \* VideoTaskManager._tasks: task id -> VideoTaskState
    store,                     \* the file at _storage_path
    temp,                      \* the file at _storage_path + ".tmp"
    op,                        \* the critical section that holds _lock, and how far its persist got
    run,                       \* per task id: position of its _run_task coroutine in this process
    resp,                      \* task client: outcome of the last create_task / get_task call
    allocated,                 \* task ids uuid4 has produced so far
    returned,                  \* task ids some create_task call has returned
    boots,                     \* number of process restarts so far
    loaded                     \* the store file as _load_from_disk read it at startup

taskVars == <<tasks, store, temp, op, run, resp, allocated, returned, boots, loaded>>
\* HttpImageGenerator (http_generator.py) and its callers
VARIABLES
    raw_cookies,               \* what cookie_manager._load_raw_cookies() returns
    http,                      \* the fields of one HttpImageGenerator
    call,                      \* per caller: its generate() call on that client
    sent,                      \* the requests the client has sent so far
    calls                      \* generate() calls made so far

\* the body of one generate response and what the decoder makes of it
VARIABLES
    framing,                   \* what the length prefix of a frame counts
    values,                    \* the JSON values the server has written
    response_text,             \* response.text
    stream_parts,              \* what _parse_stream_parts(response.text) returned
    decoded,                   \* whether the body has been decoded
    decoding                   \* the locals of a _parse_length_prefixed_frames call

frameVars == <<framing, values, response_text, stream_parts, decoded, decoding>>
\* JimengVideoGenerator (video_generator.py)
VARIABLES
    generation,                \* one generate() call: its position, its binding dict and event
    matching                   \* one _asset_matches_binding call: its arguments and its result

jimengVars == <<generation, matching>>
httpVars == <<raw_cookies, http, call, sent, calls, frameVars, jimengVars>>
vars == <<now, per_account_concurrent, accounts, held, stale, ret, lastMark,
          max_concurrent, gate, proc, running, taskVars, httpVars>>

(***************************************************************************)
(* AccountState and AccountPool (account_pool.py).                         *)
(***************************************************************************)
\* _build_account_state: a fresh entry with its own Semaphore(per).
_build_account_state(per) ==
    [semaphore |-> per, active_tasks |-> 0, cooldown_until |-> NoneT,
     last_error |-> "none", enabled |-> TRUE]

\* asyncio.Semaphore.locked() of the account's semaphore.
locked(acc) == acc.semaphore = 0

\* AccountState.in_cooldown(), read at clock value t.
in_cooldown(acc, t) == acc.cooldown_until # NoneT /\ acc.cooldown_until > t

\* acquire(): the candidate list, computed with now = t.
candidates(accts, t) ==
    {id \in DOMAIN accts :
        /\ accts[id].enabled
        /\ (accts[id].cooldown_until = NoneT \/ accts[id].cooldown_until <= t)
        /\ ~locked(accts[id])}

\* acquire() that picks among all candidates, whatever their load
least_active_any(accts, t) == candidates(accts, t)

\* acquire(): the candidates with the minimum active_tasks.
least_active(accts, t) ==
    {id \in candidates(accts, t) :
        \A other \in candidates(accts, t) :
            accts[id].active_tasks <= accts[other].active_tasks}

AccountsUnavailable == Exc(503, "accounts_unavailable", NoId)
AccountsBusy == Exc(429, "accounts_busy", NoId)

\* acquire() that reports every failure as busy
acquire_error_always_busy(accts, t2) == AccountsBusy

\* acquire(): the failure raised when there is no candidate; the cooldown
\* probe reads the clock again (value t2).
acquire_error(accts, t2) ==
    IF \E id \in DOMAIN accts : accts[id].enabled /\ in_cooldown(accts[id], t2)
    THEN AccountsUnavailable
    ELSE AccountsBusy

\* acquire() that takes the semaphore without counting the task
acquire_selected_no_count(accts, id) ==
    [accts EXCEPT ![id].semaphore = @ - 1]

\* acquire(): take the selected account's semaphore and count the task.
acquire_selected(accts, id) ==
    [accts EXCEPT ![id].semaphore = @ - 1, ![id].active_tasks = @ + 1]

\* release() that leaves active_tasks as it is
release_keeps_count(accts, id) ==
    IF id \notin DOMAIN accts
    THEN accts
    ELSE [accts EXCEPT ![id].semaphore = @ + 1]

\* release() without the floor at zero
release_no_floor(accts, id) ==
    IF id \notin DOMAIN accts
    THEN accts
    ELSE [accts EXCEPT ![id].semaphore = @ + 1,
                       ![id].active_tasks = @ - 1]

\* release(lease)
release(accts, id) ==
    IF id \notin DOMAIN accts
    THEN accts
    ELSE [accts EXCEPT ![id].semaphore = @ + 1,
                       ![id].active_tasks = Max(0, @ - 1)]

\* release(lease): what the call raises.  dict.get(), Semaphore.release() (the
\* unbounded asyncio.Semaphore) and max() raise nothing.
release_error(accts, id) == NoExc

\* mark_cooldown() that records the reason but sets no window
mark_cooldown_reason_only(accts, id, seconds, reason, t) ==
    IF id \notin DOMAIN accts
    THEN accts
    ELSE [accts EXCEPT ![id].last_error = reason]

\* mark_cooldown() without the one-second floor
mark_cooldown_no_floor(accts, id, seconds, reason, t) ==
    IF id \notin DOMAIN accts
    THEN accts
    ELSE [accts EXCEPT ![id].cooldown_until = t + seconds,
                       ![id].last_error = reason]

\* mark_cooldown(account_id, seconds, reason) at clock value t
mark_cooldown(accts, id, seconds, reason, t) ==
    IF id \notin DOMAIN accts
    THEN accts
    ELSE [accts EXCEPT ![id].cooldown_until = t + Max(1, seconds),
                       ![id].last_error = reason]

\* clear_cooldown(account_id)
clear_cooldown(accts, id) ==
    IF id \notin DOMAIN accts
    THEN accts
    ELSE [accts EXCEPT ![id].cooldown_until = NoneT,
                       ![id].last_error = "none"]

\* add_or_update_account(account_id, cookies_path)
add_or_update_account(accts, id, per) ==
    [x \in DOMAIN accts \cup {id} |->
        IF x = id THEN _build_account_state(per) ELSE accts[x]]

\* stats(): the two totals the failover reads.
stats(accts, t) ==
    [accounts_total |-> Cardinality(DOMAIN accts),
     accounts_available |->
        Cardinality({id \in DOMAIN accts :
            /\ accts[id].enabled
            /\ ~(accts[id].cooldown_until # NoneT /\ accts[id].cooldown_until > t)
            /\ ~locked(accts[id])})]

\* _normalize_account_id(None): the id an upload without account_id goes to
DefaultId == "default"
UploadIds == AllIds \cup {DefaultId}

\* upload_cookies(): the pool once the handler has found or made the target
\* cookie manager.  An id that is not in the pool is added, except the default
\* id, whose upload goes to the module's own cookie_manager.
upload_target(accts, id, per) ==
    IF id \in DOMAIN accts \/ id = DefaultId
    THEN accts
    ELSE add_or_update_account(accts, id, per)

\* upload_cookies() that saves the file and leaves the cooldown alone
upload_cookies_no_clear(accts, id, saved, per) == upload_target(accts, id, per)

\* upload_cookies(): the pool after the handler; clear_cooldown() runs only
\* when save_cookies() returned (saved)
upload_cookies(accts, id, saved, per) ==
    IF saved
    THEN clear_cooldown(upload_target(accts, id, per), id)
    ELSE upload_target(accts, id, per)

(***************************************************************************)
(* VideoTaskManager (video_tasks.py).                                      *)
(*                                                                         *)
(* Every critical section of the manager (async with self._lock) runs      *)
(* without an await inside, so no coroutine ever waits for the lock; a     *)
(* critical section is interrupted only by the death of the process.  The  *)
(* fields created and request of a task are written once and read back     *)
(* unchanged, and are left out.                                            *)
(***************************************************************************)
MaxCrashes == 1                     \* process restarts within one behaviour

TaskIds == {"t1", "t2"}             \* the values uuid4 may produce
UnknownTaskId == "t0"               \* an id no create_task call produces
PyNone == "<None>"                  \* Python's None / JSON null in a str | None field
ModelNames == {"seedance-2.0"}      \* the Literal names of GenerateVideoTaskRequest.model
RequestModels == ModelNames \cup {PyNone}   \* the field is `... | None`

\* VideoTaskResult | None
NoResult ==
    [url |-> PyNone, provider_task_id |-> PyNone,
     provider_item_ids |-> PyNone, provider_generate_id |-> PyNone]
\* ErrorDetail | None
NoError == [message |-> PyNone, type |-> PyNone, code |-> PyNone]
\* ErrorDetail(message=..., type=..., code=...)
ErrorDetail(message, type, code) ==
    [message |-> message, type |-> type, code |-> code]

\* VideoTaskState(id, created, status="queued", model=request.model, request)
VideoTaskState(model) ==
    [status |-> "queued", model |-> model,
     provider_task_id |-> PyNone, provider_item_ids |-> PyNone,
     provider_generate_id |-> PyNone, result |-> NoResult, error |-> NoError]

\* the three provider ids a backend reports: none of them, or all of them
ProviderIds ==
    {[provider_task_id |-> PyNone, provider_item_ids |-> PyNone,
      provider_generate_id |-> PyNone],
     [provider_task_id |-> "s1", provider_item_ids |-> "i1",
      provider_generate_id |-> "g1"]}

\* what on_binding is called with: a submit id, the other two optional
BindingArgs ==
    {[provider_task_id |-> "s1", provider_item_ids |-> PyNone,
      provider_generate_id |-> PyNone],
     [provider_task_id |-> "s1", provider_item_ids |-> "i1",
      provider_generate_id |-> "g1"]}

\* files: absent, a complete JSON document holding a task table, or the
\* beginning of a document
AbsentFile == [kind |-> "absent", tasks |-> <<>>]
PartialFile == [kind |-> "partial", tasks |-> <<>>]
JsonFile(table) == [kind |-> "json", tasks |-> table]

\* _serialize_state: every field as it is (None becomes null)
_serialize_state(state) == state

\* _persist_locked: the payload written to the temp file
payload(tbl) == JsonFile([id \in DOMAIN tbl |-> _serialize_state(tbl[id])])

\* _load_from_disk: one item; model is read with str(), so null becomes the
\* string "None"
load_item(item) ==
    [item EXCEPT !.model = IF @ = PyNone THEN "None" ELSE @]

\* _load_from_disk that keeps finished tasks only
_load_from_disk_finished_only(file) ==
    IF file.kind = "json"
    THEN [id \in {x \in DOMAIN file.tasks :
                     file.tasks[x].status \in {"succeeded", "failed"}} |->
             load_item(file.tasks[id])]
    ELSE <<>>

\* _load_from_disk: the table built from the file at _storage_path
_load_from_disk(file) ==
    IF file.kind = "json"
    THEN [id \in DOMAIN file.tasks |-> load_item(file.tasks[id])]
    ELSE <<>>

\* _update_status(task_id, status), memory part
_update_status(tbl, id, status) ==
    IF id \in DOMAIN tbl THEN [tbl EXCEPT ![id].status = status] ELSE tbl

\* _set_provider_binding that stores the optional ids only
_set_provider_binding_optional_only(tbl, id, b) ==
    IF id \notin DOMAIN tbl
    THEN tbl
    ELSE [tbl EXCEPT
            ![id].provider_item_ids =
                IF b.provider_item_ids # PyNone THEN b.provider_item_ids ELSE @,
            ![id].provider_generate_id =
                IF b.provider_generate_id # PyNone THEN b.provider_generate_id ELSE @]

\* _set_provider_binding, memory part
_set_provider_binding(tbl, id, b) ==
    IF id \notin DOMAIN tbl
    THEN tbl
    ELSE [tbl EXCEPT
            ![id].provider_task_id = b.provider_task_id,
            ![id].provider_item_ids =
                IF b.provider_item_ids # PyNone THEN b.provider_item_ids ELSE @,
            ![id].provider_generate_id =
                IF b.provider_generate_id # PyNone THEN b.provider_generate_id ELSE @]

\* _set_success, memory part
_set_success(tbl, id, url, ids) ==
    IF id \notin DOMAIN tbl
    THEN tbl
    ELSE [tbl EXCEPT
            ![id].status = "succeeded",
            ![id].provider_task_id = ids.provider_task_id,
            ![id].provider_item_ids = ids.provider_item_ids,
            ![id].provider_generate_id = ids.provider_generate_id,
            ![id].result = [url |-> url,
                            provider_task_id |-> ids.provider_task_id,
                            provider_item_ids |-> ids.provider_item_ids,
                            provider_generate_id |-> ids.provider_generate_id],
            ![id].error = NoError]

\* _set_failure that puts the task back in the queue
_set_failure_requeue(tbl, id, error, ids) ==
    IF id \notin DOMAIN tbl
    THEN tbl
    ELSE [tbl EXCEPT ![id].status = "queued", ![id].error = error]

\* _set_failure that leaves the error unset
_set_failure_no_error(tbl, id, error, ids) ==
    IF id \notin DOMAIN tbl THEN tbl ELSE [tbl EXCEPT ![id].status = "failed"]

\* _set_failure that stores the ids of the failure as they are
_set_failure_ids_as_given(tbl, id, error, ids) ==
    IF id \notin DOMAIN tbl
    THEN tbl
    ELSE [tbl EXCEPT
            ![id].status = "failed",
            ![id].provider_task_id = ids.provider_task_id,
            ![id].provider_item_ids = ids.provider_item_ids,
            ![id].provider_generate_id = ids.provider_generate_id,
            ![id].error = error]

\* _set_failure, memory part
_set_failure(tbl, id, error, ids) ==
    IF id \notin DOMAIN tbl
    THEN tbl
    ELSE [tbl EXCEPT
            ![id].status = "failed",
            ![id].provider_task_id =
                IF ids.provider_task_id # PyNone THEN ids.provider_task_id ELSE @,
            ![id].provider_item_ids =
                IF ids.provider_item_ids # PyNone THEN ids.provider_item_ids ELSE @,
            ![id].provider_generate_id =
                IF ids.provider_generate_id # PyNone THEN ids.provider_generate_id ELSE @,
            ![id].error = error]

\* what a create_task / get_task call gave back: HTTP status, error code and
\* the VideoTaskResponse (a copy of the task's fields)
NoTask == [VideoTaskState(PyNone) EXCEPT !.status = PyNone]
Resp(name, id, status, code, task) ==
    [op |-> name, id |-> id, status |-> status, code |-> code, task |-> task]
NoResp == Resp("none", PyNone, 0, "none", NoTask)

\* _to_response: VideoTaskResponse.model is a required str, so building the
\* response of a task whose model is None raises a validation error
_to_response(name, id, state) ==
    IF state.model = PyNone
    THEN Resp(name, id, 500, "validation_error", NoTask)
    ELSE Resp(name, id, 200, "ok", state)

\* get_task(task_id)
get_task(tbl, id) ==
    IF id \notin DOMAIN tbl
    THEN Resp("get_task", id, 404, "task_not_found", NoTask)
    ELSE _to_response("get_task", id, tbl[id])

\* what the processor call of _run_task ends with: a VideoTaskProcessResult,
\* an HTTPException (the message, type and code of the error dict in its
\* detail, PyNone for a key that is absent, and the provider ids in its
\* detail), or another exception
NoIds ==
    [provider_task_id |-> PyNone, provider_item_ids |-> PyNone,
     provider_generate_id |-> PyNone]
ProcessorOutcomes ==
    {[kind |-> "result", error |-> NoError, ids |-> ids] : ids \in ProviderIds}
    \cup {[kind |-> "http",
           error |-> ErrorDetail("Too many concurrent requests",
                                 "server_error", "rate_limit_exceeded"),
           ids |-> NoIds]}
    \cup {[kind |-> "http",
           error |-> ErrorDetail("Jimeng video generation timeout",
                                 "generation_error", "generation_timeout"),
           ids |-> ids] : ids \in ProviderIds}
    \cup {[kind |-> "http", error |-> NoError, ids |-> NoIds]}
    \cup {[kind |-> "other", error |-> NoError, ids |-> NoIds]}

\* error.get(key, default)
error_get(value, default) == IF value = PyNone THEN default ELSE value

\* _run_task without its `except Exception` clause: an exception that is not
\* an HTTPException ends the run and records nothing
run_task_outcome_http_only(tbl, id, o) ==
    CASE o.kind = "result" -> _set_success(tbl, id, "url", o.ids)
      [] o.kind = "http" ->
            _set_failure(tbl, id,
                         ErrorDetail(
                             error_get(o.error.message, "Video generation failed"),
                             error_get(o.error.type, "generation_error"),
                             error_get(o.error.code, "generation_failed")),
                         o.ids)
      [] OTHER -> tbl

\* _run_task: the table after the processor call ended with outcome o
run_task_outcome(tbl, id, o) ==
    CASE o.kind = "result" -> _set_success(tbl, id, "url", o.ids)
      [] o.kind = "http" ->
            _set_failure(tbl, id,
                         ErrorDetail(
                             error_get(o.error.message, "Video generation failed"),
                             error_get(o.error.type, "generation_error"),
                             error_get(o.error.code, "generation_failed")),
                         o.ids)
      [] OTHER ->
            _set_failure(tbl, id,
                         ErrorDetail("Video generation failed", "server_error",
                                     "generation_failed"),
                         NoIds)

\* the critical section in progress: which mutation holds the lock, for which
\* task, where its _persist_locked call stands, and the store file as it was
\* when the critical section began
NoOp == [kind |-> "none", id |-> PyNone, pc |-> "none", before |-> AbsentFile]
Locked == op # NoOp

TaskInit ==
    /\ store = AbsentFile
    /\ temp = AbsentFile
    /\ tasks = _load_from_disk(store)
    /\ op = NoOp
    /\ run = [id \in TaskIds |-> "none"]
    /\ resp = NoResp
    /\ allocated = {}
    /\ returned = {}
    /\ boots = 0
    /\ loaded = AbsentFile

otherVars == <<now, per_account_concurrent, accounts, held, stale, ret, lastMark,
               max_concurrent, gate, proc, running, httpVars>>

(***************************************************************************)
(* HttpImageGenerator (http_generator.py): one client, the stored cookies  *)
(* it boots from, and the generate() calls made on it.                     *)
(*                                                                         *)
(* A generate() coroutine runs without interruption until it awaits a      *)
(* response of the network or a lock that is held: acquiring a free        *)
(* asyncio.Lock does not suspend.  Prompts are not blank and reference     *)
(* files exist (the checks at lines 125 and 257 pass).                     *)
(***************************************************************************)
MaxCalls == 2                       \* generate() calls made on the client

Callers == {"c1", "c2"}             \* coroutines that call generate()
NoCaller == "none"                  \* an asyncio.Lock nobody holds

PSID == "__Secure-1PSID"
PSIDTS == "__Secure-1PSIDTS"
CookieNames == {PSID, PSIDTS, "NID"}

\* cookie domains as they are stored, and _normalize_cookie_domain of each:
\* strip().lower().lstrip(".")
CookieDomains ==
    {".google.com", "accounts.google.com", ".google.com.hk",
     "accounts.google.com.hk", "example.com"}
_normalize_cookie_domain(domain) ==
    CASE domain = ".google.com" -> "google.com"
      [] domain = ".google.com.hk" -> "google.com.hk"
      [] OTHER -> domain

\* "google" in domain
contains_google(domain) == domain # "example.com"

\* _is_auth_google_domain: google.com, *.google.com, google.*, *.google.*
_is_auth_google_domain(normalized_domain) ==
    normalized_domain \in {"google.com", "accounts.google.com",
                           "google.com.hk", "accounts.google.com.hk"}

\* _auth_domain_group: 0 for google.com and *.google.com, 1 for the regional
\* domains (google.* and *.google.*), 2 otherwise
_auth_domain_group(normalized_domain) ==
    CASE normalized_domain \in {"google.com", "accounts.google.com"} -> 0
      [] normalized_domain \in {"google.com.hk", "accounts.google.com.hk"} -> 1
      [] OTHER -> 2

\* _auth_domain_rank
_auth_domain_rank(normalized_domain) ==
    CASE normalized_domain = "google.com" -> 0
      [] normalized_domain = "accounts.google.com" -> 1
      [] normalized_domain = "google.com.hk" -> 2
      [] OTHER -> 3

\* one item of the stored cookie list; expirationDate 0 stands for a cookie
\* without one
CookieItem(name, value, domain, expirationDate) ==
    [name |-> name, value |-> value, domain |-> domain,
     expirationDate |-> expirationDate]

\* curl_cffi Cookies: (name, domain) -> value; set() replaces the entry of
\* the same name and domain, get(name, domain=d) reads exactly that entry
EmptyJar == [k \in {} |-> PyNone]
jar_set(jar, name, domain, value) ==
    [k \in DOMAIN jar \cup {<<name, domain>>} |->
        IF k = <<name, domain>> THEN value ELSE jar[k]]
jar_get(jar, name, domain) ==
    IF <<name, domain>> \in DOMAIN jar THEN jar[<<name, domain>>] ELSE PyNone

\* _extract_google_cookies, lines 532-542: every cookie of a google domain
\* goes into the jar under the domain it was stored with
RECURSIVE jar_of_items(_, _)
jar_of_items(raw, jar) ==
    IF raw = <<>>
    THEN jar
    ELSE LET item == Head(raw) IN
         jar_of_items(Tail(raw),
                      IF contains_google(item.domain)
                      THEN jar_set(jar, item.name, item.domain, item.value)
                      ELSE jar)

\* _extract_google_cookies, lines 544-567: the candidates of one auth cookie
\* name, in the order of the list; a cookie whose expiry is in the past at
\* time t is skipped
auth_candidates(raw, name, t) ==
    LET kept == SelectSeq(raw,
                    LAMBDA item :
                        /\ item.name = name
                        /\ contains_google(item.domain)
                        /\ _is_auth_google_domain(_normalize_cookie_domain(item.domain))
                        /\ ~(item.expirationDate # 0 /\ item.expirationDate < t))
    IN [i \in 1..Len(kept) |->
           [value |-> kept[i].value,
            domain |-> _normalize_cookie_domain(kept[i].domain),
            group |-> _auth_domain_group(_normalize_cookie_domain(kept[i].domain)),
            rank |-> _auth_domain_rank(_normalize_cookie_domain(kept[i].domain)),
            expires |-> kept[i].expirationDate]]

\* the sort key (group, rank, -expires), compared as Python compares tuples
key_less(a, b) ==
    \/ a.group < b.group
    \/ a.group = b.group /\ a.rank < b.rank
    \/ a.group = b.group /\ a.rank = b.rank /\ a.expires > b.expires

NoCandidate == [value |-> PyNone, domain |-> PyNone, group |-> -1, rank |-> -1,
                expires |-> 0]
AnyGroup == -1                      \* group=None

\* _pick_best_auth_candidate that looks at the expiry first
_pick_best_auth_candidate_latest(cands, group) ==
    LET pool == SelectSeq(cands, LAMBDA c : group = AnyGroup \/ c.group = group) IN
    IF pool = <<>>
    THEN NoCandidate
    ELSE pool[CHOOSE i \in 1..Len(pool) :
                 \A j \in 1..Len(pool) : pool[j].expires <= pool[i].expires]

\* _pick_best_auth_candidate: sorted() is stable, so the first of the
\* candidates with the least key
_pick_best_auth_candidate(cands, group) ==
    LET pool == SelectSeq(cands, LAMBDA c : group = AnyGroup \/ c.group = group) IN
    IF pool = <<>>
    THEN NoCandidate
    ELSE pool[CHOOSE i \in 1..Len(pool) :
                 /\ \A j \in 1..Len(pool) : ~key_less(pool[j], pool[i])
                 /\ \A j \in 1..(i - 1) : key_less(pool[i], pool[j])]

groups_of(cands) == {cands[i].group : i \in 1..Len(cands)}

\* _select_auth_cookie_pair: <<selected_psid, selected_psidts>>
_select_auth_cookie_pair(psid_list, psidts_list) ==
    IF psid_list = <<>>
    THEN <<NoCandidate, NoCandidate>>
    ELSE LET common == {g \in {0, 1, 2} :
                           g \in groups_of(psid_list) /\ g \in groups_of(psidts_list)}
         IN IF common # {}
            THEN LET selected_group == CHOOSE g \in common : \A h \in common : g <= h
                 IN <<_pick_best_auth_candidate(psid_list, selected_group),
                      _pick_best_auth_candidate(psidts_list, selected_group)>>
            ELSE <<_pick_best_auth_candidate(psid_list, AnyGroup),
                   _pick_best_auth_candidate(psidts_list, AnyGroup)>>

\* _extract_google_cookies at time t: the jar, or raised when the list is
\* empty ("Cookies file is empty")
_extract_google_cookies(raw, t) ==
    IF raw = <<>>
    THEN [raised |-> TRUE, jar |-> EmptyJar]
    ELSE LET pair == _select_auth_cookie_pair(
                         auth_candidates(raw, PSID, t),
                         auth_candidates(raw, PSIDTS, t))
             jar0 == jar_of_items(raw, EmptyJar)
             jar1 == IF pair[1] # NoCandidate
                     THEN jar_set(jar0, PSID, ".google.com", pair[1].value)
                     ELSE jar0
             jar2 == IF pair[2] # NoCandidate
                     THEN jar_set(jar1, PSIDTS, ".google.com", pair[2].value)
                     ELSE jar1
         IN [raised |-> FALSE, jar |-> jar2]

\* _build_http_exception, _cookies_expired, _rate_limited
_build_http_exception(status_code, code) == Exc(status_code, code, NoId)
_cookies_expired == _build_http_exception(503, "cookies_expired")
_rate_limited == _build_http_exception(429, "rate_limit_exceeded")

\* responses of the network: the status code, whether the final URL is a
\* Google sign-in page (accounts.google.com, consent.google.com,
\* ServiceLogin), and whether the body and headers hold what the caller
\* looks for (tokens, an upload URL, an upload reference, image URLs, an
\* image)
StatusCodes == {200, 204, 304, 400, 401, 403, 404, 429, 500, 503}
Response(status, signin, good) ==
    [status |-> status, signin |-> signin, good |-> good]
NoResponse == Response(0, FALSE, FALSE)         \* nothing received so far
RequestsError == Response(-1, FALSE, FALSE)     \* the request raised RequestsError
Responses ==
    {Response(s, FALSE, TRUE) : s \in StatusCodes}
    \cup {Response(200, FALSE, FALSE), Response(200, TRUE, FALSE),
          Response(429, TRUE, FALSE), RequestsError}
\* the responses that decide how a call goes on
SessionResponses ==
    {Response(200, FALSE, TRUE), Response(200, FALSE, FALSE),
     Response(200, TRUE, FALSE), Response(401, FALSE, TRUE),
     Response(429, FALSE, TRUE)}

\* generate(): except RequestsError, for an error that is no timeout
ServiceUnavailable == _build_http_exception(503, "service_unavailable")

\* _raise_for_status that looks at the status code only
_raise_for_status_no_auth_check(response) ==
    CASE response.status \in {401, 403} -> _cookies_expired
      [] response.status = 429 -> _rate_limited
      [] response.status >= 500 -> ServiceUnavailable
      [] response.status >= 400 -> _build_http_exception(500, "generation_failed")
      [] OTHER -> NoExc

\* _raise_for_status(response, stage): what it raises, NoExc for nothing;
\* _assert_auth_ok comes first
_raise_for_status(response) ==
    CASE response.signin -> _cookies_expired
      [] response.status \in {401, 403} -> _cookies_expired
      [] response.status = 429 -> _rate_limited
      [] response.status >= 500 -> ServiceUnavailable
      [] response.status >= 400 -> _build_http_exception(500, "generation_failed")
      [] OTHER -> NoExc

\* the fields of the client: _session (FALSE for None), its cookies, whether
\* _init_tokens has set _at_token, _build_label and _session_id, the holders
\* of the two locks, _last_rotate_time (NoneT for the initial 0.0) and
\* whether _rotate_task was started
HttpImageGenerator ==
    [_session |-> FALSE, cookies |-> EmptyJar, tokens |-> FALSE,
     _init_lock |-> NoCaller, _rotate_lock |-> NoCaller,
     _last_rotate_time |-> NoneT, _rotate_task |-> FALSE]

\* one generate() call: where it is suspended, the reference images left to
\* upload, the last response it received, what _raise_for_status raised for
\* it, and the exception the call ended with
InitCall ==
    [pc |-> "idle", refs |-> 0, stage |-> "none", response |-> NoResponse,
     raised |-> NoExc, exc |-> NoExc]

\* the 60 seconds within which _rotate_cookies does nothing, in clock ticks
rotate_interval == 1

\* the call ends with exception e
fail(st, e) == [st EXCEPT !.c.pc = "done", !.c.exc = e]

\* session.get / session.post: the request goes out; tokens tells whether
\* _init_tokens had succeeded by then
send(st, req) ==
    [st EXCEPT !.sent = @ \cup {[req |-> req, tokens |-> st.http.tokens]}]

\* _send_generate_request, up to its await
send_generate_request(st) ==
    [send(st, "generate") EXCEPT !.c.pc = "generating"]

\* generate(), lines 142-147: the next upload, or the generate request
upload_or_generate(st) ==
    IF st.c.refs > 0
    THEN [send(st, "upload_init") EXCEPT !.c.pc = "upload_init"]
    ELSE send_generate_request(st)

\* _rotate_cookies(force=False) called at time t, up to its first await;
\* queued tells whether another caller already waits for _rotate_lock
recently_rotated(h, t) ==
    h._last_rotate_time # NoneT /\ t - h._last_rotate_time <= rotate_interval

_rotate_cookies(st, id, t, queued) ==
    IF recently_rotated(st.http, t)
    THEN upload_or_generate(st)
    ELSE IF st.http._rotate_lock # NoCaller \/ queued
         THEN [st EXCEPT !.c.pc = "rotate_wait"]
         ELSE [send(st, "rotate") EXCEPT !.http._rotate_lock = id,
                                         !.c.pc = "rotating"]

\* _ensure_session, up to its first await, and what follows it when it
\* returns at once
_ensure_session(st, id, raw, t, queued) ==
    IF st.http._session
    THEN _rotate_cookies(st, id, t, queued)
    ELSE IF st.http._init_lock # NoCaller
         THEN [st EXCEPT !.c.pc = "init_wait"]
         ELSE LET x == _extract_google_cookies(raw, t)
                  created == [st EXCEPT !.http._session = TRUE]
                  filled == [created EXCEPT !.http.cookies = x.jar]
              IN IF x.raised
                 THEN fail(created, _cookies_expired)
                 ELSE IF jar_get(x.jar, PSID, ".google.com") = PyNone
                      THEN fail(filled, _cookies_expired)
                      ELSE [send(filled, "init") EXCEPT
                               !.http._init_lock = id, !.c.pc = "init_tokens"]

\* the stored cookie lists the session model starts from: no cookies, cookies
\* without __Secure-1PSID, and a complete set
NoPsidCookies ==
    <<CookieItem(PSIDTS, "ts0", ".google.com", 0),
      CookieItem("NID", "n0", ".google.com", 0)>>
GoodCookies ==
    <<CookieItem(PSID, "sid0", ".google.com", 0),
      CookieItem(PSIDTS, "ts0", ".google.com", 0)>>
SessionCookies == {<<>>, NoPsidCookies, GoodCookies}

\* the stored cookie lists the selection of the auth cookies is tried on: for
\* each auth cookie name and each of three domains, no cookie or one with no
\* expiry (0), an early one or a late one; the value of a cookie names the
\* domain it was stored with
AuthDomains == {".google.com", "accounts.google.com", "accounts.google.com.hk"}
Absent == -1
Expiries == {Absent, 0, 1, 9}
CookieSlots ==
    <<[name |-> PSID, domain |-> ".google.com"],
      [name |-> PSID, domain |-> "accounts.google.com"],
      [name |-> PSID, domain |-> "accounts.google.com.hk"],
      [name |-> PSIDTS, domain |-> ".google.com"],
      [name |-> PSIDTS, domain |-> "accounts.google.com"],
      [name |-> PSIDTS, domain |-> "accounts.google.com.hk"]>>
cookie_list(expiry) ==
    LET present == SelectSeq(CookieSlots, LAMBDA slot : expiry[slot] # Absent) IN
    [i \in 1..Len(present) |->
        CookieItem(present[i].name, present[i].domain, present[i].domain,
                   expiry[present[i]])]
CookieStores ==
    {cookie_list(expiry) :
        expiry \in [{CookieSlots[i] : i \in 1..Len(CookieSlots)} -> Expiries]}

(***************************************************************************)
(* The response body of the generate request and its frame decoder         *)
(* (http_generator.py:435-514).  A text is a sequence of characters; the   *)
(* one character outside the Basic Multilingual Plane is written U1F600.   *)
(* JSON values are null, non-negative integers, strings of letters and     *)
(* arrays of such values; orjson.loads is modelled on the texts of these.  *)
(***************************************************************************)
MaxFrames == 2          \* most values one response body carries

LF == "\n"
Quote == "\""
Digits == <<"0", "1", "2", "3", "4", "5", "6", "7", "8", "9">>
DigitChars == {Digits[i] : i \in 1..10}
Whitespace == {LF, " "}
NonBmp == "U1F600"                   \* a character with ord(char) > 0xFFFF
Letters == {"a", "b", "c", NonBmp}

\* s[i] and s[i:j] with Python's indices (from 0, j excluded)
At(s, i) == s[i + 1]
Slice(s, i, j) == SubSeq(s, i + 1, j)

\* JSON values
JNull == [type |-> "null", n |-> 0, s |-> <<>>, items |-> <<>>]
JNumber(n) == [type |-> "number", n |-> n, s |-> <<>>, items |-> <<>>]
JString(s) == [type |-> "string", n |-> 0, s |-> s, items |-> <<>>]
JArray(items) == [type |-> "array", n |-> 0, s |-> <<>>, items |-> items]

\* str(n) and int(text) for a non-negative integer
RECURSIVE decimal(_)
decimal(n) == IF n < 10 THEN <<Digits[n + 1]>>
              ELSE Append(decimal(n \div 10), Digits[(n % 10) + 1])
digit_value(ch) == (CHOOSE i \in 1..10 : Digits[i] = ch) - 1
RECURSIVE int(_)
int(text) == IF text = <<>> THEN 0
             ELSE 10 * int(SubSeq(text, 1, Len(text) - 1)) + digit_value(text[Len(text)])

\* str.isdigit(), str.strip(), str.lstrip(), str.splitlines()
isdigit(text) == text # <<>> /\ \A i \in 1..Len(text) : text[i] \in DigitChars
RECURSIVE lstrip(_)
lstrip(text) == IF text # <<>> /\ text[1] \in Whitespace THEN lstrip(Tail(text)) ELSE text
RECURSIVE rstrip(_)
rstrip(text) == IF text # <<>> /\ text[Len(text)] \in Whitespace
                THEN rstrip(SubSeq(text, 1, Len(text) - 1)) ELSE text
strip(text) == rstrip(lstrip(text))
RECURSIVE splitlines(_)
splitlines(text) ==
    IF text = <<>> THEN <<>>
    ELSE IF \E i \in 1..Len(text) : text[i] = LF
         THEN LET i == CHOOSE k \in 1..Len(text) :
                           text[k] = LF /\ \A j \in 1..(k - 1) : text[j] # LF
              IN <<SubSeq(text, 1, i - 1)>> \o splitlines(SubSeq(text, i + 1, Len(text)))
         ELSE <<text>>

\* the compact JSON text of a value, as the server writes it
RECURSIVE json_text(_)
RECURSIVE json_items(_)
json_items(items) ==
    IF items = <<>> THEN <<>>
    ELSE IF Len(items) = 1 THEN json_text(items[1])
    ELSE json_text(items[1]) \o <<",">> \o json_items(Tail(items))
json_text(v) ==
    CASE v.type = "null" -> <<"n", "u", "l", "l">>
      [] v.type = "number" -> decimal(v.n)
      [] v.type = "string" -> <<Quote>> \o v.s \o <<Quote>>
      [] v.type = "array" -> <<"[">> \o json_items(v.items) \o <<"]">>

\* orjson.loads(text): [ok |-> FALSE] stands for JSONDecodeError
Parsed(v) == [ok |-> TRUE, value |-> v]
JSONDecodeError == [ok |-> FALSE, value |-> JNull]

loads_scalar(text) ==
    IF text = <<"n", "u", "l", "l">> THEN Parsed(JNull)
    ELSE IF isdigit(text) /\ (Len(text) = 1 \/ text[1] # "0") THEN Parsed(JNumber(int(text)))
    ELSE IF /\ Len(text) >= 2
            /\ text[1] = Quote
            /\ text[Len(text)] = Quote
            /\ \A i \in 2..(Len(text) - 1) : text[i] \in Letters
         THEN Parsed(JString(SubSeq(text, 2, Len(text) - 1)))
    ELSE JSONDecodeError

\* the texts between the commas of the inside of an array
RECURSIVE split_commas(_)
split_commas(text) ==
    IF \E i \in 1..Len(text) : text[i] = ","
    THEN LET i == CHOOSE k \in 1..Len(text) :
                      text[k] = "," /\ \A j \in 1..(k - 1) : text[j] # ","
         IN <<SubSeq(text, 1, i - 1)>> \o split_commas(SubSeq(text, i + 1, Len(text)))
    ELSE <<text>>

loads(text) ==
    IF Len(text) >= 2 /\ text[1] = "[" /\ text[Len(text)] = "]"
    THEN LET inside == SubSeq(text, 2, Len(text) - 1)
             elements == [i \in 1..Len(split_commas(inside)) |->
                              loads_scalar(split_commas(inside)[i])]
         IN IF inside = <<>> THEN Parsed(JArray(<<>>))
            ELSE IF \A i \in 1..Len(elements) : elements[i].ok
                 THEN Parsed(JArray([i \in 1..Len(elements) |-> elements[i].value]))
                 ELSE JSONDecodeError
    ELSE loads_scalar(text)

\* parsed_frames.extend(parsed) for a list, .append(parsed) otherwise
extend_or_append(parts, parsed) ==
    IF parsed.type = "array" THEN parts \o parsed.items ELSE Append(parts, parsed)

\* the while loop of _get_char_count_for_utf16_units
RECURSIVE count_units(_, _, _, _, _)
count_units(s, start_idx, utf16_units, count, units) ==
    IF units < utf16_units /\ (start_idx + count) < Len(s)
    THEN LET char == At(s, start_idx + count)
             unit_count == IF char = NonBmp THEN 2 ELSE 1
         IN IF units + unit_count > utf16_units
            THEN <<count, units>>
            ELSE count_units(s, start_idx, utf16_units, count + 1, units + unit_count)
    ELSE <<count, units>>

\* the same count with every character taken as one unit
_get_char_count_one_unit_per_char(s, start_idx, utf16_units) ==
    LET count == IF Len(s) - start_idx < utf16_units THEN Len(s) - start_idx
                 ELSE utf16_units
    IN <<count, count>>
_get_char_count_for_utf16_units(s, start_idx, utf16_units) ==
    count_units(s, start_idx, utf16_units, 0, 0)

\* FRAME_LENGTH_PATTERN.match(content, pos): group 1, or <<>> for no match
RECURSIVE digits_at(_, _)
digits_at(content, pos) ==
    IF pos < Len(content) /\ At(content, pos) \in DigitChars
    THEN <<At(content, pos)>> \o digits_at(content, pos + 1)
    ELSE <<>>
FRAME_LENGTH_PATTERN(content, pos) ==
    LET group == digits_at(content, pos)
        after == pos + Len(group)
    IN IF group # <<>> /\ after < Len(content) /\ At(content, after) = LF
       THEN group ELSE <<>>

RECURSIVE skip_space(_, _)
skip_space(content, pos) ==
    IF pos < Len(content) /\ At(content, pos) \in Whitespace
    THEN skip_space(content, pos + 1) ELSE pos

\* the outer while loop of _parse_length_prefixed_frames
RECURSIVE frames_from(_, _, _)
frames_from(content, consumed_pos, parsed_frames) ==
    LET pos == skip_space(content, consumed_pos)
        stop == [frames |-> parsed_frames, rest |-> Slice(content, pos, Len(content))]
    IN IF pos >= Len(content) THEN stop
       ELSE LET length_val == FRAME_LENGTH_PATTERN(content, pos)
                utf16_units == int(length_val)
                start_content == pos + Len(length_val)
                found == _get_char_count_for_utf16_units(content, start_content, utf16_units)
                end_pos == start_content + found[1]
                chunk == strip(Slice(content, start_content, end_pos))
                parsed == loads(chunk)
            IN IF length_val = <<>> THEN stop
               ELSE IF found[2] < utf16_units THEN stop
               ELSE IF chunk = <<>> \/ ~parsed.ok
                    THEN frames_from(content, end_pos, parsed_frames)
               ELSE frames_from(content, end_pos,
                                extend_or_append(parsed_frames, parsed.value))

_parse_length_prefixed_frames(content) == frames_from(content, 0, <<>>)

\* the fallback loop of _parse_stream_parts over content.splitlines()
RECURSIVE fallback_parts(_)
fallback_parts(lines) ==
    IF lines = <<>> THEN <<>>
    ELSE LET line == strip(lines[Len(lines)])
             before == fallback_parts(SubSeq(lines, 1, Len(lines) - 1))
             parsed_line == loads(line)
         IN IF line = <<>> \/ isdigit(line) THEN before
            ELSE IF ~parsed_line.ok THEN before
            ELSE extend_or_append(before, parsed_line.value)

XssiPrefix == <<")", "]", "}", "'">>

_parse_stream_parts(text) ==
    LET content == lstrip(IF Len(text) >= 4 /\ SubSeq(text, 1, 4) = XssiPrefix
                          THEN SubSeq(text, 5, Len(text))
                          ELSE text)
        parsed == _parse_length_prefixed_frames(content).frames
    IN IF parsed # <<>> THEN parsed ELSE fallback_parts(splitlines(content))

\* the length prefix of a frame counts UTF-16 code units: of the JSON text
\* alone, or from the newline on, which is where the decoder starts to count
Framings == {"json_text", "newline_and_json_text"}
RECURSIVE utf16_length(_)
utf16_length(text) ==
    IF text = <<>> THEN 0
    ELSE (IF text[1] = NonBmp THEN 2 ELSE 1) + utf16_length(Tail(text))
frame(v, counted) ==
    decimal(utf16_length(json_text(v)) + (IF counted = "json_text" THEN 0 ELSE 1))
        \o <<LF>> \o json_text(v)

LongString == JString(<<"a", "b", "c", "a", "b", "c", "a", NonBmp>>)
JsonValues ==
    {JNull, JNumber(7), JNumber(75), JString(<<"a">>), JString(<<NonBmp>>), LongString,
     JArray(<<>>), JArray(<<JNumber(7), JString(<<"a">>)>>)}

(***************************************************************************)
(* JimengVideoGenerator.generate (video_generator.py): the binding dict,   *)
(* the conversation responses the page listener captures, and on_binding.  *)
(***************************************************************************)
MaxResponses == 2       \* most conversation responses one call captures

\* the JSON object of one "data:" line: its submit_id fields in the order
\* walk() meets them, and its generate_id field
DataObject(submit_ids, generate_id) ==
    [submit_ids |-> submit_ids, generate_id |-> generate_id]
DataObjects ==
    {DataObject(ids, g) :
        ids \in {<<>>, <<"s1">>, <<"s2">>, <<"s1", "s2">>, <<"s2", "s1">>},
        g \in {PyNone, "g1"}}
\* the "data:" lines of one response body
Bodies == {<<o>> : o \in DataObjects} \cup {<<o1, o2>> : o1, o2 \in DataObjects}

\* the binding dict of generate(), and the dict _extract_binding_info gives;
\* PyNone stands for a None value and for a key that is not there
BindingDict(submit_id, generate_id) == [submit_id |-> submit_id, generate_id |-> generate_id]
EmptyBinding == BindingDict(PyNone, PyNone)

\* walk(): every submit_id field it meets replaces the one before
_extract_binding_info(obj) ==
    BindingDict(IF obj.submit_ids = <<>> THEN PyNone ELSE obj.submit_ids[Len(obj.submit_ids)],
                obj.generate_id)

\* the merge that takes every incoming value
_merge_binding_overwrites(binding, incoming) ==
    [key \in DOMAIN binding |->
        IF incoming[key] # PyNone THEN incoming[key] ELSE binding[key]]

\* if not binding.get(key): binding[key] = value
_merge_binding(binding, incoming) ==
    [key \in DOMAIN binding |->
        IF incoming[key] # PyNone /\ binding[key] = PyNone
        THEN incoming[key] ELSE binding[key]]

\* the for loop of _capture_binding_from_response over the lines of a body;
\* observed lists the submit ids the lines gave, in the order of the merges
RECURSIVE capture_lines(_, _)
capture_lines(g, lines) ==
    IF lines = <<>> THEN g
    ELSE LET incoming == _extract_binding_info(lines[1])
             merged == _merge_binding(g.binding, incoming)
         IN capture_lines(
                [g EXCEPT !.binding = merged,
                          !.event = g.event \/ merged.submit_id # PyNone,
                          !.observed = IF incoming.submit_id = PyNone THEN g.observed
                                       ELSE Append(g.observed, incoming.submit_id)],
                Tail(lines))

\* a generate() call: where it is, whether a callback was given, the binding
\* dict, binding_event, the callback's invocations, and the submit id of the
\* result
NoGeneration ==
    [pc |-> "idle", on_binding |-> FALSE, binding |-> EmptyBinding, event |-> FALSE,
     observed |-> <<>>, responses |-> 0, submitted |-> FALSE, invoked |-> <<>>,
     provider_task_id |-> PyNone]

(***************************************************************************)
(* JimengVideoGenerator._asset_matches_binding (video_generator.py) on the *)
(* assets of an asset_list response.  A text is a sequence of characters:  *)
(* the punctuation of JSON, the space, and words, each of which stands for *)
(* a run of characters that holds none of the others.                      *)
(***************************************************************************)
MaxNesting == 2         \* deepest object inside an asset
Backslash == "\\"
Space == " "

JObject(pairs) == [type |-> "object", n |-> 0, s |-> <<>>, items |-> pairs]

\* str.lower() and `needle in text`
lower(text) == [i \in 1..Len(text) |-> IF text[i] = "Submit_ID" THEN "submit_id" ELSE text[i]]
contains(text, needle) ==
    \E i \in 0..(Len(text) - Len(needle)) : SubSeq(text, i + 1, i + Len(needle)) = needle

\* json.dumps(value, ensure_ascii=False)
RECURSIVE escaped(_)
escaped(text) ==
    IF text = <<>> THEN <<>>
    ELSE (IF text[1] \in {Quote, Backslash} THEN <<Backslash, text[1]>> ELSE <<text[1]>>)
            \o escaped(Tail(text))
RECURSIVE json_dumps(_)
RECURSIVE dumps_items(_)
RECURSIVE dumps_pairs(_)
dumps_items(items) ==
    IF items = <<>> THEN <<>>
    ELSE json_dumps(items[1])
            \o (IF Len(items) = 1 THEN <<>> ELSE <<",", Space>> \o dumps_items(Tail(items)))
dumps_pairs(pairs) ==
    IF pairs = <<>> THEN <<>>
    ELSE <<Quote>> \o escaped(pairs[1][1]) \o <<Quote, ":", Space>> \o json_dumps(pairs[1][2])
            \o (IF Len(pairs) = 1 THEN <<>> ELSE <<",", Space>> \o dumps_pairs(Tail(pairs)))
json_dumps(v) ==
    CASE v.type = "string" -> <<Quote>> \o escaped(v.s) \o <<Quote>>
      [] v.type = "array" -> <<"[">> \o dumps_items(v.items) \o <<"]">>
      [] v.type = "object" -> <<"{">> \o dumps_pairs(v.items) \o <<"}">>

\* json.loads(text); a position is an index from 1, next the one after what
\* was read
Read(v, next) == [ok |-> TRUE, value |-> v, next |-> next]
NotRead == [ok |-> FALSE, value |-> JNull, next |-> 0]
RECURSIVE skip_whitespace(_, _)
skip_whitespace(text, i) ==
    IF i <= Len(text) /\ text[i] = Space THEN skip_whitespace(text, i + 1) ELSE i
is_at(text, i, ch) == i <= Len(text) /\ text[i] = ch

\* the characters of a string literal after its opening quote
RECURSIVE read_string(_, _, _)
read_string(text, i, acc) ==
    IF i > Len(text) THEN NotRead
    ELSE IF text[i] = Quote THEN Read(acc, i + 1)
    ELSE IF text[i] = Backslash
         THEN IF i < Len(text) /\ text[i + 1] \in {Quote, Backslash}
              THEN read_string(text, i + 2, Append(acc, text[i + 1]))
              ELSE NotRead
    ELSE read_string(text, i + 1, Append(acc, text[i]))

RECURSIVE read_value(_, _)
RECURSIVE read_items(_, _, _)
RECURSIVE read_pairs(_, _, _)
\* the elements of an array from the one at i on
read_items(text, i, acc) ==
    LET item == read_value(text, i)
        after == skip_whitespace(text, item.next)
    IN IF ~item.ok THEN NotRead
       ELSE IF is_at(text, after, "]") THEN Read(Append(acc, item.value), after + 1)
       ELSE IF is_at(text, after, ",") THEN read_items(text, after + 1, Append(acc, item.value))
       ELSE NotRead
\* the members of an object from the one whose key starts at i on
read_pairs(text, i, acc) ==
    LET key == IF is_at(text, i, Quote) THEN read_string(text, i + 1, <<>>) ELSE NotRead
        colon == skip_whitespace(text, key.next)
        member == IF key.ok /\ is_at(text, colon, ":")
                  THEN read_value(text, colon + 1) ELSE NotRead
        after == skip_whitespace(text, member.next)
        pairs == Append(acc, <<key.value, member.value>>)
    IN IF ~member.ok THEN NotRead
       ELSE IF is_at(text, after, "}") THEN Read(pairs, after + 1)
       ELSE IF is_at(text, after, ",")
            THEN read_pairs(text, skip_whitespace(text, after + 1), pairs)
       ELSE NotRead
read_value(text, at) ==
    LET i == skip_whitespace(text, at)
        string == read_string(text, i + 1, <<>>)
        first == skip_whitespace(text, i + 1)
        items == read_items(text, first, <<>>)
        pairs == read_pairs(text, first, <<>>)
    IN IF is_at(text, i, Quote)
       THEN IF string.ok THEN Read(JString(string.value), string.next) ELSE NotRead
       ELSE IF is_at(text, i, "[")
       THEN IF is_at(text, first, "]") THEN Read(JArray(<<>>), first + 1)
            ELSE IF items.ok THEN Read(JArray(items.value), items.next) ELSE NotRead
       ELSE IF is_at(text, i, "{")
       THEN IF is_at(text, first, "}") THEN Read(JObject(<<>>), first + 1)
            ELSE IF pairs.ok THEN Read(JObject(pairs.value), pairs.next) ELSE NotRead
       ELSE NotRead
json_loads(text) ==
    LET read == read_value(text, 1)
    IN IF read.ok /\ skip_whitespace(text, read.next) = Len(text) + 1
       THEN Parsed(read.value) ELSE JSONDecodeError

\* node.strip().startswith(("{", "["))
starts_as_json(text) ==
    LET i == skip_whitespace(text, 1)
    IN is_at(text, i, "{") \/ is_at(text, i, "[")

RECURSIVE _contains_submit_id_value(_, _)
_contains_submit_id_value(node, submit_id) ==
    CASE node.type = "object" ->
            \E i \in 1..Len(node.items) :
                LET key == node.items[i][1]
                    value == node.items[i][2]
                IN \/ /\ lower(key) = <<"submit_id">>
                      /\ value.type = "string"
                      /\ value.s = submit_id
                   \/ _contains_submit_id_value(value, submit_id)
      [] node.type = "array" ->
            \E i \in 1..Len(node.items) : _contains_submit_id_value(node.items[i], submit_id)
      [] node.type = "string" ->
            IF ~contains(node.s, submit_id) \/ ~starts_as_json(node.s) THEN FALSE
            ELSE LET parsed == json_loads(node.s)
                 IN parsed.ok /\ _contains_submit_id_value(parsed.value, submit_id)
      [] OTHER -> FALSE

\* key_hint of _contains_any_item_id_value
key_hint(key) == contains(lower(key), <<"item_id">>)

RECURSIVE _contains_any_item_id_value(_, _)
_contains_any_item_id_value(node, item_ids) ==
    IF item_ids = <<>> THEN FALSE
    ELSE
    CASE node.type = "object" ->
            \E i \in 1..Len(node.items) :
                LET key == node.items[i][1]
                    value == node.items[i][2]
                IN \/ /\ key_hint(key)
                      /\ \/ /\ value.type = "string"
                            /\ \E k \in 1..Len(item_ids) : value.s = item_ids[k]
                         \/ /\ value.type = "array"
                            /\ \E j \in 1..Len(value.items), k \in 1..Len(item_ids) :
                                  /\ value.items[j].type = "string"
                                  /\ value.items[j].s = item_ids[k]
                   \/ _contains_any_item_id_value(value, item_ids)
      [] node.type = "array" ->
            \E i \in 1..Len(node.items) : _contains_any_item_id_value(node.items[i], item_ids)
      [] node.type = "string" ->
            IF ~\E k \in 1..Len(item_ids) : contains(node.s, item_ids[k]) THEN FALSE
            ELSE IF ~starts_as_json(node.s) THEN FALSE
            ELSE LET parsed == json_loads(node.s)
                 IN parsed.ok /\ _contains_any_item_id_value(parsed.value, item_ids)
      [] OTHER -> FALSE

\* [item for item in (provider_item_ids or []) if item]
RECURSIVE normalized(_)
normalized(item_ids) ==
    IF item_ids = <<>> THEN <<>>
    ELSE (IF item_ids[1] = <<>> THEN <<>> ELSE <<item_ids[1]>>) \o normalized(Tail(item_ids))

\* the keys whose string value is parsed when the exact match found nothing
FallbackKeys == <<<<"agent_conversation_session">>, <<"conversation_ext">>, <<"extra">>>>

\* asset.get(key): the value of the last member with that key, None without
asset_get(asset, key) ==
    LET found == {i \in 1..Len(asset.items) : asset.items[i][1] = key}
    IN IF found = {} THEN JNull
       ELSE asset.items[CHOOSE i \in found : \A j \in found : j <= i][2]

\* the body after the check of submit_id and of the type of the asset
matches_binding(asset, submit_id, provider_item_ids) ==
    LET normalized_item_ids == normalized(provider_item_ids)
        blob == json_dumps(asset)
    IN \/ _contains_submit_id_value(asset, submit_id)
       \/ _contains_any_item_id_value(asset, normalized_item_ids)
       \/ \E f \in 1..Len(FallbackKeys) :
            LET raw == asset_get(asset, FallbackKeys[f])
                parsed == json_loads(raw.s)
            IN /\ raw.type = "string"
               /\ contains(raw.s, submit_id)
               /\ parsed.ok
               /\ \/ _contains_submit_id_value(parsed.value, submit_id)
                  \/ _contains_any_item_id_value(parsed.value, normalized_item_ids)
       \/ contains(blob, submit_id)
       \/ \E k \in 1..Len(normalized_item_ids) : contains(blob, normalized_item_ids[k])

\* the match without the check of submit_id
_asset_matches_binding_any_submit_id(asset, submit_id, provider_item_ids) ==
    asset.type = "object" /\ matches_binding(asset, submit_id, provider_item_ids)

_asset_matches_binding(asset, submit_id, provider_item_ids) ==
    IF submit_id = <<>> \/ asset.type # "object" THEN FALSE
    ELSE matches_binding(asset, submit_id, provider_item_ids)

\* the assets: objects of one member, whose value is an id, a list of item
\* ids, or an object one level down, as it is, in a list, or as the JSON text
\* in a string
SubmitIdTexts == {<<"expected-id">>, <<"other-id">>}
ItemIdTexts == {<<"item-y">>}
AssetKeys == {<<"submit_id">>, <<"Submit_ID">>, <<"pre_gen_", "item_id", "s">>, <<"extra">>}
Leaves ==
    {JString(id) : id \in SubmitIdTexts \cup ItemIdTexts}
        \cup {JArray(<<JString(<<"item-x">>), JString(id)>>) : id \in ItemIdTexts}
Wrappings(object) ==
    {object, JArray(<<object>>), JString(json_dumps(object)),
     JString(<<Space>> \o json_dumps(object))}
RECURSIVE Objects(_)
Objects(depth) ==
    IF depth = 0 THEN {}
    ELSE {JObject(<<<<key, value>>>>) :
             key \in AssetKeys,
             value \in Leaves \cup UNION {Wrappings(object) : object \in Objects(depth - 1)}}
Assets == Objects(MaxNesting)

\* an _asset_matches_binding call: its arguments and what it returned
Matching(asset, submit_id, provider_item_ids, result) ==
    [called |-> TRUE, asset |-> asset, submit_id |-> submit_id,
     provider_item_ids |-> provider_item_ids, result |-> result]
NoMatching ==
    [called |-> FALSE, asset |-> JNull, submit_id |-> <<>>, provider_item_ids |-> <<>>,
     result |-> FALSE]

JimengInit ==
    /\ generation = NoGeneration
    /\ matching = NoMatching

\* a call of _parse_length_prefixed_frames between two passes of its outer
\* loop: consumed_pos, parsed_frames, the frames accepted so far, and the
\* arguments and result of the last _get_char_count_for_utf16_units call
NoCall == [start_idx |-> 0, utf16_units |-> 0, count |-> 0, units |-> 0, made |-> FALSE]
Decoding(pc, consumed_pos, parsed_frames, accepted, last) ==
    [pc |-> pc, consumed_pos |-> consumed_pos, parsed_frames |-> parsed_frames,
     accepted |-> accepted, call |-> last]
NoDecoding == Decoding("none", 0, <<>>, 0, NoCall)

FrameInit(framings) ==
    /\ framing \in framings
    /\ values = <<>>
    /\ response_text = <<>>
    /\ stream_parts = <<>>
    /\ decoded = FALSE
    /\ decoding = NoDecoding

ClientInit(stores) ==
    /\ raw_cookies \in stores
    /\ http = HttpImageGenerator
    /\ call = [c \in Callers |-> InitCall]
    /\ sent = {}
    /\ calls = 0

HttpInit(stores) ==
    /\ ClientInit(stores)
    /\ FrameInit({"newline_and_json_text"})
    /\ JimengInit

(***************************************************************************)
(* The pool driven directly through its API, as the unit tests do.         *)
(***************************************************************************)
\* the end of the window a mark_cooldown(id, seconds) call at time t asks for
Window(t, seconds) == t + (IF seconds < 1 THEN 1 ELSE seconds)
NoMark == NoneT

\* what the last pool call gave back: a lease, or a failure raised at clock
\* value `at`; calls that return nothing leave NoRet
Ret(id, err, at) == [op |-> "acquire", account_id |-> id, error |-> err, at |-> at]
NoRet == [op |-> "none", account_id |-> NoId, error |-> NoExc, at |-> 0]

\* a request coroutine before it starts
InitProc ==
    [pc |-> "idle", kind |-> "none", lease |-> NoId, tried_accounts |-> {},
     last_error |-> NoExc, attempt |-> 0, max_attempts |-> 0,
     exc |-> NoExc, pending |-> "none", result |-> NoExc, response |-> NoExc,
     leases |-> <<>>, saturated_at_entry |-> FALSE]

\* the pool, the gate and the request coroutines as the module creates them
ServiceInit ==
    /\ now = 0
    /\ per_account_concurrent \in 1..MaxPerAccount
    /\ \E account_sources \in AccountSources :
          accounts = [id \in account_sources |-> _build_account_state(per_account_concurrent)]
    /\ held = [id \in AllIds |-> 0]
    /\ stale = [id \in AllIds |-> 0]
    /\ ret = NoRet
    /\ lastMark = [id \in AllIds |-> NoMark]
    /\ max_concurrent \in 1..MaxConcurrent
    /\ gate = [semaphore |-> max_concurrent, active_tasks |-> 0]
    /\ proc = [p \in Procs |-> InitProc]
    /\ running = NoProc

Init ==
    /\ ServiceInit
    /\ TaskInit
    /\ HttpInit({<<>>})

\* time passes
Tick ==
    /\ now < MaxTime
    /\ now' = now + 1
    /\ UNCHANGED <<httpVars, taskVars, poolVars, clientVars, appVars>>

\* lease = await pool.acquire()
Outstanding == held["a"] + held["b"]

PoolAcquire ==
    /\ Outstanding < MaxHeld
    /\ IF candidates(accounts, now) = {}
       THEN \E d \in 0..1 :
               /\ now + d <= MaxTime
               /\ now' = now + d
               /\ ret' = Ret(NoId, acquire_error(accounts, now + d), now + d)
               /\ UNCHANGED <<httpVars, taskVars, per_account_concurrent, accounts, held, stale, lastMark, appVars>>
       ELSE \E selected \in least_active(accounts, now) :
               /\ accounts' = acquire_selected(accounts, selected)
               /\ held' = [held EXCEPT ![selected] = @ + 1]
               /\ ret' = Ret(selected, NoExc, 0)
               /\ UNCHANGED <<httpVars, taskVars, now, per_account_concurrent, stale, lastMark, appVars>>

\* pool.release(lease) of a lease that acquire() returned and that was not
\* released before: one of the entry now in the pool, or one of an entry
\* that add_or_update_account has replaced since
PoolRelease(id) ==
    /\ held[id] > 0
    /\ accounts' = release(accounts, id)
    /\ held' = [held EXCEPT ![id] = @ - 1]
    /\ \E old \in {n \in 0..1 : IF n = 1 THEN stale[id] > 0 ELSE held[id] > stale[id]} :
          stale' = [stale EXCEPT ![id] = @ - old]
    /\ ret' = NoRet
    /\ UNCHANGED <<httpVars, taskVars, now, per_account_concurrent, lastMark, appVars>>

\* pool.mark_cooldown(id, seconds, reason)
PoolMarkCooldown(id, seconds) ==
    /\ accounts' = mark_cooldown(accounts, id, seconds, "cookies_expired", now)
    /\ lastMark' = IF id \in DOMAIN accounts
                   THEN [lastMark EXCEPT ![id] = Window(now, seconds)]
                   ELSE lastMark
    /\ ret' = NoRet
    /\ UNCHANGED <<httpVars, taskVars, now, per_account_concurrent, held, stale, appVars>>

\* pool.clear_cooldown(id)
PoolClearCooldown(id) ==
    /\ accounts' = clear_cooldown(accounts, id)
    /\ lastMark' = [lastMark EXCEPT ![id] = NoMark]
    /\ ret' = NoRet
    /\ UNCHANGED <<httpVars, taskVars, now, per_account_concurrent, held, stale, appVars>>

NextPool ==
    \/ Tick
    \/ PoolAcquire
    \/ \E id \in AllIds : PoolRelease(id)
    \/ \E id \in AllIds, seconds \in 0..MaxSeconds : PoolMarkCooldown(id, seconds)
    \/ \E id \in AllIds : PoolClearCooldown(id)

\* the pool on its own: no request handler runs, so the admission gate keeps
\* the value it is constructed with and one size stands for all
InitPool == Init /\ max_concurrent = 1

SpecPool == InitPool /\ [][NextPool]_vars

\* pool.release(lease) of any lease object: one released before, one whose
\* account was never in the pool.  The client's count of outstanding leases is
\* not touched: such a lease is not outstanding.
PoolReleaseAny(id) ==
    /\ id \in DOMAIN accounts =>
          accounts[id].semaphore < per_account_concurrent + MaxHeld
    /\ accounts' = release(accounts, id)
    /\ ret' = [op |-> "release", account_id |-> id,
               error |-> release_error(accounts, id), at |-> 0]
    /\ UNCHANGED <<httpVars, taskVars, now, per_account_concurrent, held, stale, lastMark, appVars>>

\* acquire() and release() calls in any order and number
NextPoolAny ==
    \/ Tick
    \/ PoolAcquire
    \/ \E id \in AllIds : PoolRelease(id)
    \/ \E id \in AllIds : PoolReleaseAny(id)

SpecPoolAny == InitPool /\ [][NextPoolAny]_vars

\* POST /v1/cookies for account id, seen from the pool; `at` keeps the
\* cooldown_until the upload found on the account (NoneT when it had none)
PoolUploadCookies(id, saved) ==
    /\ accounts' = upload_cookies(accounts, id, saved, per_account_concurrent)
    /\ lastMark' = IF saved /\ id \in AllIds
                   THEN [lastMark EXCEPT ![id] = NoMark]
                   ELSE lastMark
    /\ ret' = [op |-> "upload", account_id |-> id,
               error |-> IF saved THEN NoExc ELSE Exc(500, "exception", NoId),
               at |-> IF id \in DOMAIN accounts
                      THEN accounts[id].cooldown_until ELSE NoneT]
    /\ UNCHANGED <<httpVars, taskVars, now, per_account_concurrent, held, stale, appVars>>

NextPoolUpload ==
    \/ NextPool
    \/ \E id \in UploadIds, saved \in BOOLEAN : PoolUploadCookies(id, saved)

SpecPoolUpload == InitPool /\ [][NextPoolUpload]_vars

\* pool.add_or_update_account(id, path)
PoolAddOrUpdate(id) ==
    /\ accounts' = add_or_update_account(accounts, id, per_account_concurrent)
    /\ lastMark' = [lastMark EXCEPT ![id] = NoMark]
    /\ ret' = NoRet
    /\ UNCHANGED <<httpVars, taskVars, now, per_account_concurrent, held, stale, appVars>>

NextPoolUpdate ==
    \/ NextPool
    \/ \E id \in AllIds : PoolAddOrUpdate(id)

SpecPoolUpdate == InitPool /\ [][NextPoolUpdate]_vars

\* pool.add_or_update_account(id, path) by a client that tells the leases of
\* the entry it replaces from those of the new one
PoolReplace(id) ==
    /\ accounts' = add_or_update_account(accounts, id, per_account_concurrent)
    /\ stale' = [stale EXCEPT ![id] = held[id]]
    /\ lastMark' = [lastMark EXCEPT ![id] = NoMark]
    /\ ret' = NoRet
    /\ UNCHANGED <<httpVars, taskVars, now, per_account_concurrent, held, appVars>>

NextPoolReplace ==
    \/ PoolAcquire
    \/ \E id \in AllIds : PoolRelease(id)
    \/ \E id \in AllIds : PoolReplace(id)

SpecPoolReplace == InitPool /\ [][NextPoolReplace]_vars

(***************************************************************************)
(* ConcurrencyManager (semaphore.py).                                      *)
(***************************************************************************)
TooManyRequests == Exc(429, "rate_limit_exceeded", NoId)

\* a locked() that never reports the gate as full
gate_locked_never(g) == FALSE

\* self._semaphore.locked()
gate_locked(g) == g.semaphore = 0

\* await self._semaphore.acquire(); self._active_tasks += 1
gate_acquire(g) ==
    [g EXCEPT !.semaphore = @ - 1, !.active_tasks = @ + 1]

\* release() that forgets the task counter
gate_release_keeps_count(g) ==
    [g EXCEPT !.semaphore = @ + 1]

\* ConcurrencyManager.release()
gate_release(g) ==
    [g EXCEPT !.semaphore = @ + 1, !.active_tasks = @ - 1]

(***************************************************************************)
(* The request handlers and the failover loop (routes.py).                 *)
(***************************************************************************)
account_cooldown_seconds == MaxSeconds     \* settings.account_cooldown_seconds

Ok(by) == Exc(200, "ok", by)
AuthExpired(by) == Exc(503, "cookies_expired", by)
GenerationTimeout(by) == Exc(504, "generation_timeout", by)
DownloadFailed(by) == Exc(500, "download_failed", by)
CookieManagerMissing(by) == Exc(503, "account_unavailable", by)
\* an exception that is not an HTTPException (browser or I/O error, cancellation)
OtherException(by) == Exc(0, "exception", by)

\* what the backend of account `by` can answer to a generate() call
BackendOutcomes(kind, by) ==
    {Ok(by), AuthExpired(by), OtherException(by)} \cup
    (IF kind = "video" THEN {GenerationTimeout(by)} ELSE {DownloadFailed(by)})

OutcomeCodes ==
    {"ok", "cookies_expired", "generation_timeout", "download_failed", "exception"}

\* except HTTPException: the exception is an HTTPException
is_http_exception(e) == e.status >= 400

\* a check that takes every HTTPException for an expired login
_is_cookies_expired_error_any_http(e) == e.status >= 400

\* _is_cookies_expired_error(exc)
_is_cookies_expired_error(e) == e.code = "cookies_expired"

\* the failure of the availability pre-check and of an exhausted loop
NoAvailableAccount == Exc(503, "accounts_unavailable", NoId)

\* a pre-check that hands on the failure acquire() would raise
PreCheckError_from_pool(accts, t) == acquire_error(accts, t)

\* the failure raised when stats() reports no available account
PreCheckError(accts, t) == NoAvailableAccount

\* every enabled account is saturated and none is in cooldown
AllSaturated(accts, t) ==
    \A id \in DOMAIN accts :
        accts[id].enabled => (locked(accts[id]) /\ ~in_cooldown(accts[id], t))

Upd(p, r) == [proc EXCEPT ![p] = r]

\* the history entry of the lease the coroutine got last
LastLease(r) == r.leases[Len(r.leases)]
WithLastLease(r, e) == [r.leases EXCEPT ![Len(r.leases)] = e]

\* generate_image / generate_video up to the first suspension:
\* await concurrency_manager.acquire(), then the reference downloads
AdmitRequest(p, kind, suspends) ==
    /\ running = NoProc
    /\ proc[p].pc = "idle"
    /\ IF gate_locked(gate)
       THEN /\ proc' = Upd(p, [proc[p] EXCEPT !.pc = "done", !.kind = kind,
                                            !.response = TooManyRequests])
            /\ UNCHANGED <<gate, running>>
       ELSE /\ gate' = gate_acquire(gate)
            /\ IF suspends
               THEN /\ proc' = Upd(p, [proc[p] EXCEPT !.pc = "prepare", !.kind = kind])
                    /\ UNCHANGED running
               ELSE /\ proc' = Upd(p, [proc[p] EXCEPT !.pc = "failover", !.kind = kind])
                    /\ running' = p
    /\ UNCHANGED <<httpVars, taskVars, now, poolVars, clientVars, max_concurrent>>

\* _prepare_video_reference_files finishes or raises
PrepareDone(p, ok) ==
    /\ running = NoProc
    /\ proc[p].pc = "prepare"
    /\ running' = p
    /\ proc' = Upd(p, IF ok
                      THEN [proc[p] EXCEPT !.pc = "failover"]
                      ELSE [proc[p] EXCEPT !.pc = "handler_finally",
                                           !.response = OtherException(NoId)])
    /\ UNCHANGED <<httpVars, taskVars, now, poolVars, clientVars, max_concurrent, gate>>

\* _generate_with_account_pool / _generate_video_with_account_pool: the
\* availability pre-check
FailoverEntry(p) ==
    /\ running = p
    /\ proc[p].pc = "failover"
    /\ LET st == stats(accounts, now)
           r == [proc[p] EXCEPT !.saturated_at_entry = AllSaturated(accounts, now)]
       IN  proc' = Upd(p, IF st.accounts_available = 0
                          THEN [r EXCEPT !.pc = "handler_finally",
                                         !.result = PreCheckError(accounts, now)]
                          ELSE [r EXCEPT !.pc = "loop",
                                         !.max_attempts = st.accounts_total])
    /\ UNCHANGED <<httpVars, taskVars, now, poolVars, clientVars, max_concurrent, gate, running>>

\* for attempt in range(1, max_attempts + 1): lease = await account_pool.acquire()
LoopAcquire(p) ==
    /\ running = p
    /\ proc[p].pc = "loop"
    /\ IF proc[p].attempt = proc[p].max_attempts
       THEN /\ proc' = Upd(p, [proc[p] EXCEPT !.pc = "after_loop"])
            /\ UNCHANGED accounts
       ELSE IF candidates(accounts, now) = {}
       THEN /\ proc' = Upd(p, [proc[p] EXCEPT !.pc = "after_loop",
                                            !.attempt = @ + 1])
            /\ UNCHANGED accounts
       ELSE \E selected \in least_active(accounts, now) :
            /\ accounts' = acquire_selected(accounts, selected)
            /\ proc' = Upd(p, [proc[p] EXCEPT
                    !.pc = "check_tried",
                    !.attempt = @ + 1,
                    !.lease = selected,
                    !.leases = Append(@, [account_id |-> selected,
                                          released |-> 0,
                                          outcome |-> "none",
                                          cooldown_to |-> NoneT])])
    /\ UNCHANGED <<httpVars, taskVars, now, per_account_concurrent, lastMark, clientVars,
                   max_concurrent, gate, running>>

\* the tried-account stop without its release
CheckTried_keeps_lease(p) ==
    /\ running = p
    /\ proc[p].pc = "check_tried"
    /\ LET r == proc[p] IN
       IF r.lease \in r.tried_accounts
       THEN /\ proc' = Upd(p, [r EXCEPT !.pc = "after_loop"])
            /\ UNCHANGED running
       ELSE /\ proc' = Upd(p, [r EXCEPT
                    !.pc = "generating",
                    !.tried_accounts = @ \cup {r.lease},
                    !.exc = NoExc])
            /\ running' = NoProc
    /\ UNCHANGED <<httpVars, taskVars, now, poolVars, clientVars, max_concurrent, gate>>

\* the backend call without the tried-account stop
CheckTried_no_tried_check(p) ==
    /\ running = p
    /\ proc[p].pc = "check_tried"
    /\ proc' = Upd(p, [proc[p] EXCEPT
            !.pc = "generating",
            !.tried_accounts = @ \cup {proc[p].lease},
            !.exc = NoExc])
    /\ running' = NoProc
    /\ UNCHANGED <<httpVars, taskVars, now, poolVars, clientVars, max_concurrent, gate>>

\* if lease.account_id in tried_accounts: release and break; otherwise call
\* the backend of the leased account
CheckTried(p) ==
    /\ running = p
    /\ proc[p].pc = "check_tried"
    /\ LET r == proc[p] IN
       IF r.lease \in r.tried_accounts
       THEN /\ accounts' = release(accounts, r.lease)
            /\ proc' = Upd(p, [r EXCEPT
                    !.pc = "after_loop",
                    !.leases = WithLastLease(r, [LastLease(r) EXCEPT !.released = @ + 1])])
            /\ UNCHANGED running
       ELSE /\ UNCHANGED accounts
            /\ IF r.kind = "video" /\ r.lease \notin DOMAIN accounts
               THEN /\ proc' = Upd(p, [r EXCEPT
                            !.pc = "except",
                            !.tried_accounts = @ \cup {r.lease},
                            !.exc = CookieManagerMissing(r.lease)])
                    /\ UNCHANGED running
               ELSE /\ proc' = Upd(p, [r EXCEPT
                            !.pc = "generating",
                            !.tried_accounts = @ \cup {r.lease},
                            !.exc = NoExc])
                    /\ running' = NoProc
    /\ UNCHANGED <<httpVars, taskVars, now, per_account_concurrent, lastMark, clientVars,
                   max_concurrent, gate>>

\* the backend's generate() returns or raises
BackendReturn(p, code) ==
    /\ running = NoProc
    /\ proc[p].pc = "generating"
    /\ running' = p
    /\ \E outcome \in BackendOutcomes(proc[p].kind, proc[p].lease) :
       /\ outcome.code = code
       /\ LET r == [proc[p] EXCEPT
                       !.leases = WithLastLease(proc[p],
                           [LastLease(proc[p]) EXCEPT !.outcome = outcome.code])]
          IN  proc' = Upd(p,
                IF outcome.code = "ok"
                THEN [r EXCEPT !.pc = "finally", !.pending = "return"]
                ELSE IF is_http_exception(outcome)
                THEN [r EXCEPT !.pc = "except", !.exc = outcome]
                ELSE [r EXCEPT !.pc = "finally", !.exc = outcome, !.pending = "raise"])
    /\ UNCHANGED <<httpVars, taskVars, now, poolVars, clientVars, max_concurrent, gate>>

\* the except clause that goes on to the next account without the cooldown
ExceptHTTP_continue_unmarked(p) ==
    /\ running = p
    /\ proc[p].pc = "except"
    /\ LET r == proc[p] IN
       IF _is_cookies_expired_error(r.exc)
       THEN /\ lastMark' = [lastMark EXCEPT ![r.lease] = Window(now, account_cooldown_seconds)]
            /\ proc' = Upd(p, [r EXCEPT
                    !.pc = "finally",
                    !.last_error = r.exc,
                    !.pending = "continue",
                    !.leases = WithLastLease(r, [LastLease(r) EXCEPT
                        !.cooldown_to = Window(now, account_cooldown_seconds)])])
            /\ UNCHANGED accounts
       ELSE /\ proc' = Upd(p, [r EXCEPT !.pc = "finally", !.pending = "raise"])
            /\ UNCHANGED <<accounts, lastMark>>
    /\ UNCHANGED <<httpVars, taskVars, now, per_account_concurrent, clientVars, max_concurrent, gate, running>>

\* except HTTPException as exc: cooldown and continue on cookies_expired,
\* re-raise anything else
ExceptHTTP(p) ==
    /\ running = p
    /\ proc[p].pc = "except"
    /\ LET r == proc[p] IN
       IF _is_cookies_expired_error(r.exc)
       THEN /\ accounts' = mark_cooldown(accounts, r.lease, account_cooldown_seconds,
                                         "cookies_expired", now)
            /\ lastMark' = [lastMark EXCEPT ![r.lease] = Window(now, account_cooldown_seconds)]
            /\ proc' = Upd(p, [r EXCEPT
                    !.pc = "finally",
                    !.last_error = r.exc,
                    !.pending = "continue",
                    !.leases = WithLastLease(r, [LastLease(r) EXCEPT
                        !.cooldown_to = Window(now, account_cooldown_seconds)])])
       ELSE /\ proc' = Upd(p, [r EXCEPT !.pc = "finally", !.pending = "raise"])
            /\ UNCHANGED <<accounts, lastMark>>
    /\ UNCHANGED <<httpVars, taskVars, now, per_account_concurrent, clientVars, max_concurrent, gate, running>>

\* a backend call whose lease outlives the handler: no release in the finally
FinallyRelease_keeps_lease(p) ==
    /\ running = p
    /\ proc[p].pc = "finally"
    /\ LET r == [proc[p] EXCEPT !.pending = "none"]
           pending == proc[p].pending
       IN  proc' = Upd(p,
             IF pending = "continue" THEN [r EXCEPT !.pc = "loop"]
             ELSE IF pending = "return"
             THEN [r EXCEPT !.pc = "handler_finally", !.result = Ok(r.lease)]
             ELSE [r EXCEPT !.pc = "handler_finally", !.result = r.exc])
    /\ UNCHANGED <<httpVars, taskVars, now, poolVars, clientVars, max_concurrent, gate,
                   running>>

\* finally: account_pool.release(lease), then return, re-raise or continue
FinallyRelease(p) ==
    /\ running = p
    /\ proc[p].pc = "finally"
    /\ accounts' = release(accounts, proc[p].lease)
    /\ LET r == [proc[p] EXCEPT
                    !.pending = "none",
                    !.leases = WithLastLease(proc[p],
                        [LastLease(proc[p]) EXCEPT !.released = @ + 1])]
           pending == proc[p].pending
       IN  proc' = Upd(p,
             IF pending = "continue" THEN [r EXCEPT !.pc = "loop"]
             ELSE IF pending = "return"
             THEN [r EXCEPT !.pc = "handler_finally", !.result = Ok(r.lease)]
             ELSE [r EXCEPT !.pc = "handler_finally", !.result = r.exc])
    /\ UNCHANGED <<httpVars, taskVars, now, per_account_concurrent, lastMark, clientVars,
                   max_concurrent, gate, running>>

\* an exit that forgets last_error
AfterLoop_always_unavailable(p) ==
    /\ running = p
    /\ proc[p].pc = "after_loop"
    /\ proc' = Upd(p, [proc[p] EXCEPT
            !.pc = "handler_finally",
            !.result = NoAvailableAccount])
    /\ UNCHANGED <<httpVars, taskVars, now, poolVars, clientVars, max_concurrent, gate, running>>

\* after the loop: raise last_error, or 503 accounts_unavailable
AfterLoop(p) ==
    /\ running = p
    /\ proc[p].pc = "after_loop"
    /\ proc' = Upd(p, [proc[p] EXCEPT
            !.pc = "handler_finally",
            !.result = IF proc[p].last_error # NoExc
                       THEN proc[p].last_error
                       ELSE NoAvailableAccount])
    /\ UNCHANGED <<httpVars, taskVars, now, poolVars, clientVars, max_concurrent, gate, running>>

\* the handler stores the file, then finally: concurrency_manager.release()
HandlerFinally(p, saved) ==
    /\ running = p
    /\ proc[p].pc = "handler_finally"
    /\ gate' = gate_release(gate)
    /\ running' = NoProc
    /\ LET r == proc[p] IN
       proc' = Upd(p, [InitProc EXCEPT
            !.pc = "done",
            !.kind = r.kind,
            !.response = IF r.result = NoExc THEN r.response
                         ELSE IF r.result.code = "ok" /\ ~saved
                         THEN OtherException(NoId)
                         ELSE r.result])
    /\ UNCHANGED <<httpVars, taskVars, now, poolVars, clientVars, max_concurrent>>

\* the response is sent; the slot serves the next request
Reset(p) ==
    /\ running = NoProc
    /\ proc[p].pc = "done"
    /\ proc' = Upd(p, InitProc)
    /\ UNCHANGED <<httpVars, taskVars, now, poolVars, clientVars, max_concurrent, gate, running>>

\* upload_cookies(file, account_id)
UploadCookies(id, saved) ==
    /\ running = NoProc
    /\ saved \/ (id \notin DOMAIN accounts /\ id # DefaultId)
    /\ accounts' = upload_cookies(accounts, id, saved, per_account_concurrent)
    /\ lastMark' = IF saved /\ id \in AllIds
                   THEN [lastMark EXCEPT ![id] = NoMark]
                   ELSE lastMark
    /\ UNCHANGED <<httpVars, taskVars, now, per_account_concurrent, clientVars, appVars>>

Next ==
    \/ Tick
    \/ \E p \in Procs, kind \in Kinds :
          \E suspends \in (IF kind = "video" THEN BOOLEAN ELSE {FALSE}) :
             AdmitRequest(p, kind, suspends)
    \/ \E p \in Procs, ok \in BOOLEAN : PrepareDone(p, ok)
    \/ \E p \in Procs : FailoverEntry(p)
    \/ \E p \in Procs : LoopAcquire(p)
    \/ \E p \in Procs : CheckTried(p)
    \/ \E p \in Procs, code \in OutcomeCodes : BackendReturn(p, code)
    \/ \E p \in Procs : ExceptHTTP(p)
    \/ \E p \in Procs : FinallyRelease(p)
    \/ \E p \in Procs : AfterLoop(p)
    \/ \E p \in Procs, saved \in BOOLEAN : HandlerFinally(p, saved)
    \/ \E p \in Procs : Reset(p)
    \/ \E id \in UploadIds, saved \in BOOLEAN : UploadCookies(id, saved)

Spec == Init /\ [][Next]_vars

\* Image requests on a pool of two accounts, under the scheduling of the
\* event loop: a coroutine that owns the loop takes its next step, and a
\* backend call that has its outcome resumes its coroutine once the loop is
\* free (ready callbacks run in the order they became ready).
OwnSteps(p) ==
    \/ FailoverEntry(p)
    \/ LoopAcquire(p)
    \/ CheckTried(p)
    \/ ExceptHTTP(p)
    \/ FinallyRelease(p)
    \/ AfterLoop(p)
    \/ \E saved \in BOOLEAN : HandlerFinally(p, saved)

NextFailover ==
    \/ Tick
    \/ \E p \in Procs : AdmitRequest(p, "image", FALSE)
    \/ \E p \in Procs : OwnSteps(p)
    \/ \E p \in Procs, code \in OutcomeCodes : BackendReturn(p, code)
    \/ \E p \in Procs : Reset(p)

InitFailover ==
    /\ Init
    /\ per_account_concurrent = 1
    /\ max_concurrent = Cardinality(Procs)
    /\ DOMAIN accounts = AllIds

SpecFailoverFair ==
    /\ InitFailover
    /\ [][NextFailover]_vars
    /\ \A p \in Procs : WF_vars(OwnSteps(p))
    /\ \A p \in Procs : SF_vars(\E code \in OutcomeCodes : BackendReturn(p, code))

(***************************************************************************)
(* VideoTaskManager: its critical sections, coroutines and restarts.       *)
(***************************************************************************)
\* a mutation enters its critical section: memory is changed, the lock is
\* held, _persist_locked is about to open the temp file
Enter(kind, id, tbl) ==
    /\ tasks' = tbl
    /\ op' = [kind |-> kind, id |-> id, pc |-> "open", before |-> store]

\* create_task(request), up to the call of _persist_locked
CreateTask(id, model) ==
    /\ ~Locked
    /\ id \notin allocated
    /\ allocated' = allocated \cup {id}
    /\ Enter("create", id,
             [x \in DOMAIN tasks \cup {id} |->
                 IF x = id THEN VideoTaskState(model) ELSE tasks[x]])
    /\ resp' = NoResp
    /\ UNCHANGED <<store, temp, run, returned, boots, loaded, otherVars>>

\* _run_task starts: _update_status(task_id, "processing")
RunStart(id) ==
    /\ ~Locked
    /\ run[id] = "scheduled"
    /\ IF id \in DOMAIN tasks
       THEN /\ Enter("status", id, _update_status(tasks, id, "processing"))
            /\ UNCHANGED run
       ELSE /\ run' = [run EXCEPT ![id] = "done"]
            /\ UNCHANGED <<tasks, op>>
    /\ resp' = NoResp
    /\ UNCHANGED <<store, temp, allocated, returned, boots, loaded, otherVars>>

\* the processor calls on_binding: the generator does so once, after the
\* backend reported a submit id and before it waits for the generation
Binding(id, b) ==
    /\ ~Locked
    /\ run[id] = "in_processor"
    /\ IF id \in DOMAIN tasks
       THEN /\ Enter("binding", id, _set_provider_binding(tasks, id, b))
            /\ UNCHANGED run
       ELSE /\ run' = [run EXCEPT ![id] = "bound"]
            /\ UNCHANGED <<tasks, op>>
    /\ resp' = NoResp
    /\ UNCHANGED <<store, temp, allocated, returned, boots, loaded, otherVars>>

\* the processor call returns or raises, and _run_task records it
ProcessorEnds(id, o) ==
    /\ ~Locked
    /\ run[id] \in {"in_processor", "bound"}
    /\ IF id \in DOMAIN tasks
       THEN /\ Enter(o.kind, id, run_task_outcome(tasks, id, o))
            /\ UNCHANGED run
       ELSE /\ run' = [run EXCEPT ![id] = "done"]
            /\ UNCHANGED <<tasks, op>>
    /\ resp' = NoResp
    /\ UNCHANGED <<store, temp, allocated, returned, boots, loaded, otherVars>>

\* _persist_locked that opens the store file itself for writing
PersistOpen_in_place ==
    /\ op.pc = "open"
    /\ store' = PartialFile
    /\ op' = [op EXCEPT !.pc = "write"]
    /\ UNCHANGED <<tasks, temp, run, resp, allocated, returned, boots, loaded, otherVars>>

\* _persist_locked: temp_path.write_text opens (truncates) the temp file
PersistOpen ==
    /\ op.pc = "open"
    /\ temp' = PartialFile
    /\ op' = [op EXCEPT !.pc = "write"]
    /\ UNCHANGED <<tasks, store, run, resp, allocated, returned, boots, loaded, otherVars>>

\* _persist_locked: temp_path.write_text has written the whole payload
PersistWrite ==
    /\ op.pc = "write"
    /\ temp' = payload(tasks)
    /\ op' = [op EXCEPT !.pc = "replace"]
    /\ UNCHANGED <<tasks, store, run, resp, allocated, returned, boots, loaded, otherVars>>

\* _persist_locked: temp_path.replace(_storage_path), an atomic rename; the
\* lock is released and the caller goes on to its next await or to its end
PersistReplace ==
    /\ op.pc = "replace"
    /\ store' = temp
    /\ temp' = AbsentFile
    /\ op' = NoOp
    /\ run' = CASE op.kind = "create" -> [run EXCEPT ![op.id] = "scheduled"]
                [] op.kind = "status" -> [run EXCEPT ![op.id] = "in_processor"]
                [] op.kind = "binding" -> [run EXCEPT ![op.id] = "bound"]
                [] OTHER -> [run EXCEPT ![op.id] = "done"]
    /\ resp' = IF op.kind = "create"
               THEN _to_response("create_task", op.id, tasks[op.id])
               ELSE NoResp
    /\ returned' = IF op.kind = "create" /\ tasks[op.id].model # PyNone
                   THEN returned \cup {op.id}
                   ELSE returned
    /\ UNCHANGED <<tasks, allocated, boots, loaded, otherVars>>

\* GET /v2/videos/generations/{task_id}
GetTask(id) ==
    /\ ~Locked
    /\ resp' = get_task(tasks, id)
    /\ UNCHANGED <<tasks, store, temp, op, run, allocated, returned, boots, loaded,
                   otherVars>>

\* the process dies, at any point, and is started again: memory and
\* coroutines are gone, VideoTaskManager() reads the store file
Restart ==
    /\ boots < MaxCrashes
    /\ boots' = boots + 1
    /\ loaded' = store
    /\ tasks' = _load_from_disk(store)
    /\ op' = NoOp
    /\ run' = [id \in TaskIds |-> "none"]
    /\ resp' = NoResp
    /\ UNCHANGED <<store, temp, allocated, returned, otherVars>>

\* one life of the process
NextTasks ==
    \/ \E id \in TaskIds, model \in RequestModels : CreateTask(id, model)
    \/ \E id \in TaskIds : RunStart(id)
    \/ \E id \in TaskIds, b \in BindingArgs : Binding(id, b)
    \/ \E id \in TaskIds, o \in ProcessorOutcomes : ProcessorEnds(id, o)
    \/ PersistOpen
    \/ PersistWrite
    \/ PersistReplace
    \/ \E id \in TaskIds \cup {UnknownTaskId} : GetTask(id)

\* the task manager behind a fixed pool and gate
InitTasks ==
    /\ InitPool
    /\ per_account_concurrent = 1
    /\ DOMAIN accounts = {"a"}

SpecTasks == InitTasks /\ [][NextTasks]_vars

\* one life of the process in which the event loop runs every task run it
\* was given, every store write goes through, and every processor call
\* returns or raises
SpecTasksFair ==
    /\ InitTasks
    /\ [][NextTasks]_vars
    /\ WF_vars(PersistOpen)
    /\ WF_vars(PersistWrite)
    /\ WF_vars(PersistReplace)
    /\ \A id \in TaskIds : WF_vars(RunStart(id))
    /\ \A id \in TaskIds : WF_vars(\E o \in ProcessorOutcomes : ProcessorEnds(id, o))

\* _persist_locked raises (mkdir, write_text or replace fails): the mutation
\* already made in memory stays, the lock is released, and the exception
\* goes to the caller.  create_task raises before it schedules the run;
\* _update_status is called ahead of _run_task's try and the except clauses
\* call _set_failure outside it, so their exception ends the run;
\* _set_success and the binding callback are inside the try, so theirs is
\* caught by `except Exception`
PersistFails ==
    /\ Locked
    /\ op' = NoOp
    /\ run' = CASE op.kind = "create" -> run
                [] op.kind \in {"result", "binding"} -> [run EXCEPT ![op.id] = "raising"]
                [] OTHER -> [run EXCEPT ![op.id] = "done"]
    /\ resp' = IF op.kind = "create"
               THEN Resp("create_task", op.id, 500, "exception", NoTask)
               ELSE NoResp
    /\ UNCHANGED <<tasks, store, temp, allocated, returned, boots, loaded, otherVars>>

\* _run_task, except Exception: _set_failure for the exception of a store write
WriteFailureCaught(id) ==
    /\ ~Locked
    /\ run[id] = "raising"
    /\ Enter("other", id,
             run_task_outcome(tasks, id,
                              [kind |-> "other", error |-> NoError, ids |-> NoIds]))
    /\ resp' = NoResp
    /\ UNCHANGED <<store, temp, run, allocated, returned, boots, loaded, otherVars>>

\* one life of the process on a store whose writes may fail
NextTasksWriteFail ==
    \/ NextTasks
    \/ PersistFails
    \/ \E id \in TaskIds : WriteFailureCaught(id)

SpecTasksWriteFail == InitTasks /\ [][NextTasksWriteFail]_vars

\* the process may die and start again
NextTasksCrash ==
    \/ NextTasks
    \/ Restart

SpecTasksCrash == InitTasks /\ [][NextTasksCrash]_vars

(***************************************************************************)
(* HttpImageGenerator.generate(): one action per stretch of a call between *)
(* two suspensions.  No caller ever waits for _init_lock: its holder sets  *)
(* _session before it first suspends, and a caller that finds _session set *)
(* does not ask for the lock.                                              *)
(***************************************************************************)
\* the client, the call of caller c and the requests sent, as one value
St(c) == [http |-> http, c |-> call[c], sent |-> sent]
Apply(c, st) ==
    /\ http' = st.http
    /\ call' = [call EXCEPT ![c] = st.c]
    /\ sent' = st.sent

\* asyncio.Lock hands a released lock to its first waiter: a caller that
\* arrives while another one waits queues behind it
Queued(c) == \E d \in Callers \ {c} : call[d].pc = "rotate_wait"

\* the response r of the request of the given stage has arrived
Received(c, stage, r) ==
    [St(c) EXCEPT !.c.response = r, !.c.stage = stage]

\* generate(prompt, reference_images), up to its first suspension
Generate(c, refs) ==
    /\ call[c].pc = "idle"
    /\ calls < MaxCalls
    /\ calls' = calls + 1
    /\ Apply(c, _ensure_session([St(c) EXCEPT !.c = [InitCall EXCEPT !.refs = refs]],
                                c, raw_cookies, now, Queued(c)))
    /\ UNCHANGED <<frameVars, jimengVars, raw_cookies, taskVars, now, poolVars, clientVars, appVars>>

\* _init_tokens: the landing page arrives; the lock is released whatever
\* happens (an HTTPError of raise_for_status is a RequestsError)
InitTokensResponse(c, r) ==
    /\ call[c].pc = "init_tokens"
    /\ LET released == [Received(c, "init", r) EXCEPT !.http._init_lock = NoCaller] IN
       Apply(c,
             CASE r = RequestsError -> fail(released, ServiceUnavailable)
               [] r # RequestsError /\ r.signin -> fail(released, _cookies_expired)
               [] r # RequestsError /\ ~r.signin /\ r.status >= 400 ->
                      fail(released, ServiceUnavailable)
               [] r # RequestsError /\ ~r.signin /\ r.status < 400 /\ ~r.good ->
                      fail(released, _cookies_expired)
               [] OTHER ->
                      _rotate_cookies([released EXCEPT !.http.tokens = TRUE,
                                                       !.http._rotate_task = TRUE],
                                      c, now, Queued(c)))
    /\ UNCHANGED <<frameVars, jimengVars, raw_cookies, calls, taskVars, now, poolVars, clientVars, appVars>>

\* _rotate_cookies: _rotate_lock was released and handed to the waiter
RotateLockAcquired(c) ==
    /\ call[c].pc = "rotate_wait"
    /\ http._rotate_lock = NoCaller
    /\ Apply(c, _rotate_cookies(St(c), c, now, FALSE))
    /\ UNCHANGED <<frameVars, jimengVars, raw_cookies, calls, taskVars, now, poolVars, clientVars, appVars>>

\* _rotate_cookies: the answer of RotateCookies arrives
RotateResponse(c, r) ==
    /\ call[c].pc = "rotating"
    /\ LET released == [Received(c, "rotate", r) EXCEPT !.http._rotate_lock = NoCaller] IN
       Apply(c,
             CASE r = RequestsError -> fail(released, ServiceUnavailable)
               [] r.status = 401 -> fail(released, _cookies_expired)
               [] r.status = 429 -> fail(released, _rate_limited)
               [] r.status >= 400 /\ r.status \notin {401, 429} ->
                      fail(released, ServiceUnavailable)
               [] OTHER ->
                      upload_or_generate(
                          [released EXCEPT
                              !.http._last_rotate_time = now,
                              !.http.cookies =
                                  IF r.good
                                  THEN jar_set(@, PSIDTS, ".google.com", "rotated")
                                  ELSE @]))
    /\ UNCHANGED <<frameVars, jimengVars, raw_cookies, calls, taskVars, now, poolVars, clientVars, appVars>>

\* a response that _raise_for_status looks at: the call fails with what it
\* raises, or with otherwise when the response lacks what the caller needs,
\* or goes on
Checked(c, stage, r, otherwise, goes_on(_)) ==
    IF r = RequestsError
    THEN fail(Received(c, stage, r), ServiceUnavailable)
    ELSE LET st == [Received(c, stage, r) EXCEPT !.c.raised = _raise_for_status(r)] IN
         IF st.c.raised # NoExc
         THEN fail(st, st.c.raised)
         ELSE IF ~r.good THEN fail(st, otherwise) ELSE goes_on(st)

\* _upload_file: the answer to the upload start arrives
UploadInitResponse(c, r) ==
    /\ call[c].pc = "upload_init"
    /\ Apply(c, Checked(c, "upload_init", r,
                        _build_http_exception(500, "upload_failed"),
                        LAMBDA st : [send(st, "upload_finalize") EXCEPT
                                        !.c.pc = "upload_finalize"]))
    /\ UNCHANGED <<frameVars, jimengVars, raw_cookies, calls, taskVars, now, poolVars, clientVars, appVars>>

\* _upload_file: the answer to the upload itself arrives
UploadFinalizeResponse(c, r) ==
    /\ call[c].pc = "upload_finalize"
    /\ Apply(c, Checked(c, "upload_finalize", r,
                        _build_http_exception(500, "upload_failed"),
                        LAMBDA st : upload_or_generate([st EXCEPT !.c.refs = @ - 1])))
    /\ UNCHANGED <<frameVars, jimengVars, raw_cookies, calls, taskVars, now, poolVars, clientVars, appVars>>

\* _send_generate_request: the answer of StreamGenerate arrives; a body
\* without an image URL fails the call
GenerateResponse(c, r) ==
    /\ call[c].pc = "generating"
    /\ Apply(c, Checked(c, "stream_generate", r,
                        _build_http_exception(500, "generation_failed"),
                        LAMBDA st : [send(st, "download") EXCEPT
                                        !.c.pc = "downloading"]))
    /\ UNCHANGED <<frameVars, jimengVars, raw_cookies, calls, taskVars, now, poolVars, clientVars, appVars>>

\* _download_image: the image, or a failure
DownloadResponse(c, r) ==
    /\ call[c].pc = "downloading"
    /\ LET st == Received(c, "download", r) IN
       Apply(c,
             CASE r = RequestsError -> fail(st, ServiceUnavailable)
               [] r.status \in {401, 403} -> fail(st, _cookies_expired)
               [] r.status = 200 /\ r.good -> fail(st, NoExc)
               [] OTHER -> fail(st, _build_http_exception(500, "download_failed")))
    /\ UNCHANGED <<frameVars, jimengVars, raw_cookies, calls, taskVars, now, poolVars, clientVars, appVars>>

\* the caller has its path or its exception and may call again
Return(c) ==
    /\ call[c].pc = "done"
    /\ call' = [call EXCEPT ![c] = InitCall]
    /\ UNCHANGED <<frameVars, jimengVars, raw_cookies, http, sent, calls, taskVars, now, poolVars,
                   clientVars, appVars>>

NextSession ==
    \/ Tick
    \/ \E c \in Callers, refs \in 0..1 : Generate(c, refs)
    \/ \E c \in Callers, r \in SessionResponses : InitTokensResponse(c, r)
    \/ \E c \in Callers : RotateLockAcquired(c)
    \/ \E c \in Callers, r \in SessionResponses : RotateResponse(c, r)
    \/ \E c \in Callers, r \in SessionResponses : UploadInitResponse(c, r)
    \/ \E c \in Callers, r \in SessionResponses : UploadFinalizeResponse(c, r)
    \/ \E c \in Callers, r \in SessionResponses : GenerateResponse(c, r)
    \/ \E c \in Callers, r \in SessionResponses : DownloadResponse(c, r)
    \/ \E c \in Callers : Return(c)

\* one client on the stored cookies, beside a fixed pool, gate and task store
InitSession ==
    /\ ServiceInit
    /\ max_concurrent = 1
    /\ per_account_concurrent = 1
    /\ DOMAIN accounts = {"a"}
    /\ TaskInit
    /\ HttpInit(SessionCookies)

SpecSession == InitSession /\ [][NextSession]_vars

\* the bootstrap alone, on every stored cookie list
NextCookies ==
    \/ Tick
    \/ Generate("c1", 0)

InitCookies ==
    /\ ServiceInit
    /\ max_concurrent = 1
    /\ per_account_concurrent = 1
    /\ DOMAIN accounts = {"a"}
    /\ TaskInit
    /\ HttpInit(CookieStores)

SpecCookies == InitCookies /\ [][NextCookies]_vars

\* one caller on a client with a complete cookie set; the upload and
\* generate requests are answered in every way
NextStatus ==
    \/ \E refs \in 0..1 : Generate("c1", refs)
    \/ InitTokensResponse("c1", Response(200, FALSE, TRUE))
    \/ RotateResponse("c1", Response(200, FALSE, TRUE))
    \/ \E r \in Responses : UploadInitResponse("c1", r)
    \/ \E r \in Responses : UploadFinalizeResponse("c1", r)
    \/ \E r \in Responses : GenerateResponse("c1", r)
    \/ DownloadResponse("c1", Response(200, FALSE, TRUE))
    \/ Return("c1")

InitStatus ==
    /\ ServiceInit
    /\ max_concurrent = 1
    /\ per_account_concurrent = 1
    /\ DOMAIN accounts = {"a"}
    /\ TaskInit
    /\ HttpInit({GoodCookies})

SpecStatus == InitStatus /\ [][NextStatus]_vars

\* the server writes one more frame to the body of the generate response
ServerWrites(v) ==
    /\ ~decoded
    /\ Len(values) < MaxFrames
    /\ values' = Append(values, v)
    /\ response_text' = response_text \o frame(v, framing)
    /\ UNCHANGED <<framing, stream_parts, decoded, decoding>>
    /\ UNCHANGED <<jimengVars, raw_cookies, http, call, sent, calls, taskVars, now, poolVars,
                   clientVars, appVars>>

\* _parse_image_urls: the client decodes the body it received
ParseStreamParts ==
    /\ ~decoded
    /\ stream_parts' = _parse_stream_parts(response_text)
    /\ decoded' = TRUE
    /\ UNCHANGED <<framing, values, response_text, decoding>>
    /\ UNCHANGED <<jimengVars, raw_cookies, http, call, sent, calls, taskVars, now, poolVars,
                   clientVars, appVars>>

NextFrames ==
    \/ \E v \in JsonValues : ServerWrites(v)
    \/ ParseStreamParts

InitFrames ==
    /\ ServiceInit
    /\ max_concurrent = 1
    /\ per_account_concurrent = 1
    /\ DOMAIN accounts = {"a"}
    /\ TaskInit
    /\ ClientInit({GoodCookies})
    /\ FrameInit(Framings)
    /\ JimengInit

SpecFrames == InitFrames /\ [][NextFrames]_vars

\* the texts the frame decoder is run on: every text of at most MaxText
\* characters made of two digits, the newline and a non-BMP character
MaxText == 6
TextChars == {"2", "3", LF, NonBmp}
Texts == UNION {[1..n -> TextChars] : n \in 0..MaxText}

\* _parse_length_prefixed_frames(content) is called; the content is kept in
\* response_text
DecodeCall(content) ==
    /\ decoding.pc = "none"
    /\ response_text' = content
    /\ decoding' = Decoding("loop", 0, <<>>, 0, NoCall)
    /\ UNCHANGED <<framing, values, stream_parts, decoded>>
    /\ UNCHANGED <<jimengVars, raw_cookies, http, call, sent, calls, taskVars, now, poolVars,
                   clientVars, appVars>>

\* the pass without the break on a frame that is shorter than its length
DecodeStep_accepts_short_frame ==
    /\ decoding.pc = "loop"
    /\ \E pos \in {skip_space(response_text, decoding.consumed_pos)} :
       \E length_val \in {FRAME_LENGTH_PATTERN(response_text, pos)} :
       \E found \in {_get_char_count_for_utf16_units(response_text, pos + Len(length_val),
                                                      int(length_val))} :
       \E parsed \in {loads(strip(Slice(response_text, pos + Len(length_val),
                                        pos + Len(length_val) + found[1])))} :
       decoding' =
         IF pos >= Len(response_text) \/ length_val = <<>>
         THEN [decoding EXCEPT !.pc = "done", !.consumed_pos = pos, !.call = NoCall]
         ELSE Decoding("loop", pos + Len(length_val) + found[1],
                       IF ~parsed.ok THEN decoding.parsed_frames
                       ELSE extend_or_append(decoding.parsed_frames, parsed.value),
                       decoding.accepted + 1,
                       [start_idx |-> pos + Len(length_val), utf16_units |-> int(length_val),
                        count |-> found[1], units |-> found[2], made |-> TRUE])
    /\ UNCHANGED <<framing, values, response_text, stream_parts, decoded>>
    /\ UNCHANGED <<jimengVars, raw_cookies, http, call, sent, calls, taskVars, now, poolVars,
                   clientVars, appVars>>

\* one pass of the outer while loop of _parse_length_prefixed_frames on the
\* content response_text; each local of the pass is computed once
DecodeStep ==
    /\ decoding.pc = "loop"
    /\ \E pos \in {skip_space(response_text, decoding.consumed_pos)} :
       \E length_val \in {FRAME_LENGTH_PATTERN(response_text, pos)} :
       \E utf16_units \in {int(length_val)} :
       \E found \in {_get_char_count_for_utf16_units(response_text, pos + Len(length_val),
                                                      utf16_units)} :
       \E chunk \in {strip(Slice(response_text, pos + Len(length_val),
                                  pos + Len(length_val) + found[1]))} :
       \E parsed \in {loads(chunk)} :
       LET content == response_text
           d == decoding
           start_content == pos + Len(length_val)
           last == [start_idx |-> start_content, utf16_units |-> utf16_units,
                    count |-> found[1], units |-> found[2], made |-> TRUE]
           end_pos == start_content + found[1]
       IN  decoding' =
             IF d.consumed_pos >= Len(content)
             THEN [d EXCEPT !.pc = "done", !.call = NoCall]
             ELSE IF pos >= Len(content) \/ length_val = <<>>
             THEN [d EXCEPT !.pc = "done", !.consumed_pos = pos, !.call = NoCall]
             ELSE IF found[2] < utf16_units
             THEN [d EXCEPT !.pc = "done", !.consumed_pos = pos, !.call = last]
             ELSE Decoding("loop", end_pos,
                           IF chunk = <<>> \/ ~parsed.ok
                           THEN d.parsed_frames
                           ELSE extend_or_append(d.parsed_frames, parsed.value),
                           d.accepted + 1, last)
    /\ UNCHANGED <<framing, values, response_text, stream_parts, decoded>>
    /\ UNCHANGED <<jimengVars, raw_cookies, http, call, sent, calls, taskVars, now, poolVars,
                   clientVars, appVars>>

InitDecoder ==
    /\ ServiceInit
    /\ max_concurrent = 1
    /\ per_account_concurrent = 1
    /\ DOMAIN accounts = {"a"}
    /\ TaskInit
    /\ ClientInit({GoodCookies})
    /\ FrameInit({"newline_and_json_text"})
    /\ JimengInit

NextDecoder ==
    \/ /\ decoding.pc = "none"
       /\ \E content \in Texts : DecodeCall(content)
    \/ DecodeStep

\* the loop goes on as long as the call is not over
SpecDecoder == InitDecoder /\ [][NextDecoder]_vars /\ WF_vars(DecodeStep)

(***************************************************************************)
(* One JimengVideoGenerator.generate call, await by await.                 *)
(***************************************************************************)
GenerationStep(g) ==
    /\ generation' = g
    /\ UNCHANGED <<matching, frameVars, raw_cookies, http, call, sent, calls, taskVars,
                   now, poolVars, clientVars, appVars>>

\* generate(prompt, on_binding=...): the cookies are read, the page is made
\* and the response listener is registered
GenerateVideo(has_cookies, callback) ==
    /\ generation.pc = "idle"
    /\ GenerationStep([generation EXCEPT !.pc = IF has_cookies THEN "page" ELSE "raised",
                                         !.on_binding = callback])

\* the task the listener made for a response gets its body and merges it
CaptureBindingFromResponse(body) ==
    /\ generation.pc # "idle"
    /\ generation.responses < MaxResponses
    /\ GenerationStep([capture_lines(generation, body)
                          EXCEPT !.responses = generation.responses + 1])

\* page.goto, _verify_login and _extract_video_candidates
VerifyLogin(ok) ==
    /\ generation.pc = "page"
    /\ GenerationStep([generation EXCEPT !.pc = IF ok THEN "submit" ELSE "raised"])

\* await self._submit_prompt(...)
SubmitPrompt(ok) ==
    /\ generation.pc = "submit"
    /\ GenerationStep([generation EXCEPT !.pc = IF ok THEN "wait_binding" ELSE "raised",
                                         !.submitted = ok])

\* _wait_for_binding comes back, on the event or on its timeout; the binding
\* is read and the callback called
WaitForBindingEnds ==
    /\ generation.pc = "wait_binding"
    /\ LET submit_id == generation.binding.submit_id
       IN IF submit_id # PyNone /\ generation.on_binding
          THEN GenerationStep(
                   [generation EXCEPT !.pc = "on_binding",
                                      !.invoked = Append(generation.invoked,
                                                         generation.binding)])
          ELSE GenerationStep([generation EXCEPT !.pc = "wait_generation"])

\* await maybe_awaitable
OnBindingEnds(ok) ==
    /\ generation.pc = "on_binding"
    /\ GenerationStep([generation EXCEPT !.pc = IF ok THEN "wait_generation" ELSE "raised"])

\* await self._wait_for_generation(...)
WaitForGenerationEnds(ok) ==
    /\ generation.pc = "wait_generation"
    /\ GenerationStep([generation EXCEPT !.pc = IF ok THEN "download" ELSE "raised"])

\* await self._download_video(...) and the result
DownloadVideoEnds(ok) ==
    /\ generation.pc = "download"
    /\ GenerationStep([generation EXCEPT
                          !.pc = IF ok THEN "returned" ELSE "raised",
                          !.provider_task_id = IF ok THEN generation.binding.submit_id
                                               ELSE PyNone])

NextGeneration ==
    \/ \E has_cookies, callback \in BOOLEAN : GenerateVideo(has_cookies, callback)
    \/ \E body \in Bodies : CaptureBindingFromResponse(body)
    \/ \E ok \in BOOLEAN : VerifyLogin(ok)
    \/ \E ok \in BOOLEAN : SubmitPrompt(ok)
    \/ WaitForBindingEnds
    \/ \E ok \in BOOLEAN : OnBindingEnds(ok)
    \/ \E ok \in BOOLEAN : WaitForGenerationEnds(ok)
    \/ \E ok \in BOOLEAN : DownloadVideoEnds(ok)

InitGeneration ==
    /\ ServiceInit
    /\ max_concurrent = 1
    /\ per_account_concurrent = 1
    /\ DOMAIN accounts = {"a"}
    /\ TaskInit
    /\ HttpInit({GoodCookies})

SpecGeneration == InitGeneration /\ [][NextGeneration]_vars

(***************************************************************************)
(* One _asset_matches_binding call on an asset of the asset list.          *)
(***************************************************************************)
AssetMatchesBinding(asset, submit_id, provider_item_ids) ==
    /\ ~matching.called
    /\ matching' = Matching(asset, submit_id, provider_item_ids,
                            _asset_matches_binding(asset, submit_id, provider_item_ids))
    /\ UNCHANGED <<generation, frameVars, raw_cookies, http, call, sent, calls, taskVars,
                   now, poolVars, clientVars, appVars>>

NextMatching ==
    \E asset \in Assets, submit_id \in {<<>>, <<"expected-id">>},
       provider_item_ids \in {<<>>, <<<<"item-y">>>>} :
        AssetMatchesBinding(asset, submit_id, provider_item_ids)

SpecMatching == InitGeneration /\ [][NextMatching]_vars

(***************************************************************************)
(* Async video tasks behind the gate and the pool: _run_task               *)
(* (video_tasks.py) with _process_video_task_request (routes.py) as its    *)
(* processor, next to the image and video handlers.                        *)
(*                                                                         *)
(* Coroutine p runs the task TaskOf(p).  No lock of the manager is ever    *)
(* waited for and a free semaphore is acquired without suspending, so a    *)
(* run goes from its start to the first await of the processor, and from   *)
(* the processor's last await to its own end, without another coroutine    *)
(* in between.  Store writes succeed here.                                  *)
(***************************************************************************)
TaskOf(p) == IF p = "p1" THEN "t1" ELSE "t2"
\* the coroutines that run a task here: one, the others serve requests
TaskRunners == {"p1"}

\* _run_task of the task is between its first line and its last
InTaskRun(p) == run[TaskOf(p)] \in {"in_processor", "bound"}

\* a mutation of the manager with its _persist_locked call
Persisted(tbl) ==
    /\ tasks' = tbl
    /\ store' = payload(tbl)
    /\ temp' = AbsentFile
    /\ UNCHANGED <<op, boots, loaded>>

\* the error dict in the detail of an HTTPException, as _run_task reads it
detail_error(e) ==
    ErrorDetail(IF e.code = "rate_limit_exceeded"
                THEN "Too many concurrent requests" ELSE e.code,
                CASE e.code = "rate_limit_exceeded" -> "server_error"
                  [] e.code \in {"generation_timeout", "download_failed"} ->
                        "generation_error"
                  [] OTHER -> "service_error",
                e.code)

\* what the processor call ended with, from what the handler code returned
\* or raised; ids are the provider ids of the generator's result, or those it
\* put in the detail of the exception raised while it waited for the video
processor_outcome(e, ids) ==
    IF e.code = "ok" THEN [kind |-> "result", error |-> NoError, ids |-> ids]
    ELSE IF is_http_exception(e)
    THEN [kind |-> "http", error |-> detail_error(e),
          ids |-> IF e.code = "generation_timeout" THEN ids ELSE NoIds]
    ELSE [kind |-> "other", error |-> NoError, ids |-> NoIds]

\* POST /v2/videos/generations: create_task(request)
CreateVideoTask(id, model) ==
    /\ running = NoProc
    /\ id \notin allocated
    /\ allocated' = allocated \cup {id}
    /\ Persisted([x \in DOMAIN tasks \cup {id} |->
                     IF x = id THEN VideoTaskState(model) ELSE tasks[x]])
    /\ run' = [run EXCEPT ![id] = "scheduled"]
    /\ resp' = _to_response("create_task", id, VideoTaskState(model))
    /\ returned' = IF model # PyNone THEN returned \cup {id} ELSE returned
    /\ UNCHANGED otherVars

\* _run_task starts: _update_status(task_id, "processing")
RunTaskStart(p) ==
    /\ running = NoProc
    /\ proc[p].pc = "idle"
    /\ run[TaskOf(p)] = "scheduled"
    /\ Persisted(_update_status(tasks, TaskOf(p), "processing"))
    /\ run' = [run EXCEPT ![TaskOf(p)] = "in_processor"]
    /\ running' = p
    /\ proc' = Upd(p, [proc[p] EXCEPT !.pc = "admission", !.kind = "video"])
    /\ UNCHANGED <<resp, allocated, returned>>
    /\ UNCHANGED <<httpVars, now, poolVars, clientVars, max_concurrent, gate>>

\* an admission that waits for a slot when the gate is full
RunTaskAdmission_waits(p, suspends) ==
    /\ running \in {p, NoProc}
    /\ proc[p].pc = "admission"
    /\ IF gate_locked(gate)
       THEN /\ running' = NoProc
            /\ UNCHANGED <<gate, proc>>
       ELSE /\ gate' = gate_acquire(gate)
            /\ IF suspends
               THEN /\ proc' = Upd(p, [proc[p] EXCEPT !.pc = "prepare"])
                    /\ running' = NoProc
               ELSE /\ proc' = Upd(p, [proc[p] EXCEPT !.pc = "failover"])
                    /\ running' = p
    /\ UNCHANGED <<taskVars, httpVars, now, poolVars, clientVars, max_concurrent>>

\* _process_video_task_request: await concurrency_manager.acquire(), ahead
\* of the try; its HTTPException goes to _run_task, which records the failure
RunTaskAdmission(p, suspends) ==
    /\ running = p
    /\ proc[p].pc = "admission"
    /\ IF gate_locked(gate)
       THEN /\ Persisted(run_task_outcome(tasks, TaskOf(p),
                             processor_outcome(TooManyRequests, NoIds)))
            /\ run' = [run EXCEPT ![TaskOf(p)] = "done"]
            /\ proc' = Upd(p, [proc[p] EXCEPT !.pc = "done",
                                            !.response = TooManyRequests])
            /\ running' = NoProc
            /\ UNCHANGED gate
       ELSE /\ gate' = gate_acquire(gate)
            /\ UNCHANGED <<tasks, store, temp, op, boots, loaded, run>>
            /\ IF suspends
               THEN /\ proc' = Upd(p, [proc[p] EXCEPT !.pc = "prepare"])
                    /\ running' = NoProc
               ELSE /\ proc' = Upd(p, [proc[p] EXCEPT !.pc = "failover"])
                    /\ UNCHANGED running
    /\ UNCHANGED <<resp, allocated, returned>>
    /\ UNCHANGED <<httpVars, now, poolVars, clientVars, max_concurrent>>

\* the generator calls on_binding while the backend call is in progress
RunTaskBinding(p, b) ==
    /\ running = NoProc
    /\ proc[p].pc = "generating"
    /\ run[TaskOf(p)] = "in_processor"
    /\ Persisted(_set_provider_binding(tasks, TaskOf(p), b))
    /\ run' = [run EXCEPT ![TaskOf(p)] = "bound"]
    /\ UNCHANGED <<resp, allocated, returned, otherVars>>

\* a run whose processor gives its slot back only when it returns a result
RunTaskEnds_release_on_success(p, saved, ids) ==
    /\ running = p
    /\ proc[p].pc = "handler_finally"
    /\ InTaskRun(p)
    /\ run[TaskOf(p)] = "bound" => ids.provider_task_id # PyNone
    /\ running' = NoProc
    /\ LET r == proc[p]
           e == IF r.result = NoExc THEN r.response
                ELSE IF r.result.code = "ok" /\ ~saved
                THEN OtherException(NoId)
                ELSE r.result
       IN  /\ gate' = IF e.code = "ok" THEN gate_release(gate) ELSE gate
           /\ proc' = Upd(p, [InitProc EXCEPT !.pc = "done", !.kind = r.kind,
                                              !.response = e])
           /\ Persisted(run_task_outcome(tasks, TaskOf(p), processor_outcome(e, ids)))
    /\ run' = [run EXCEPT ![TaskOf(p)] = "done"]
    /\ UNCHANGED <<resp, allocated, returned>>
    /\ UNCHANGED <<httpVars, now, poolVars, clientVars, max_concurrent>>

\* _process_video_task_request stores the file, then finally:
\* concurrency_manager.release(); _run_task records what it returned or raised.
\* The generator reports the submit id it called on_binding with: its binding
\* dict keeps the first value of a key (_merge_binding)
RunTaskEnds(p, saved, ids) ==
    /\ running = p
    /\ proc[p].pc = "handler_finally"
    /\ InTaskRun(p)
    /\ run[TaskOf(p)] = "bound" => ids.provider_task_id # PyNone
    /\ gate' = gate_release(gate)
    /\ running' = NoProc
    /\ LET r == proc[p]
           e == IF r.result = NoExc THEN r.response
                ELSE IF r.result.code = "ok" /\ ~saved
                THEN OtherException(NoId)
                ELSE r.result
       IN  /\ proc' = Upd(p, [InitProc EXCEPT !.pc = "done", !.kind = r.kind,
                                              !.response = e])
           /\ Persisted(run_task_outcome(tasks, TaskOf(p), processor_outcome(e, ids)))
    /\ run' = [run EXCEPT ![TaskOf(p)] = "done"]
    /\ UNCHANGED <<resp, allocated, returned>>
    /\ UNCHANGED <<httpVars, now, poolVars, clientVars, max_concurrent>>

\* image requests, video requests and task runs on one event loop
NextRuns ==
    \/ \E p \in TaskRunners, model \in ModelNames : CreateVideoTask(TaskOf(p), model)
    \/ \E p \in TaskRunners : RunTaskStart(p)
    \/ \E p \in TaskRunners, suspends \in BOOLEAN : RunTaskAdmission(p, suspends)
    \/ \E p \in TaskRunners, b \in BindingArgs : RunTaskBinding(p, b)
    \/ \E p \in TaskRunners, saved \in BOOLEAN, ids \in ProviderIds :
          RunTaskEnds(p, saved, ids)
    \/ \E p \in Procs, kind \in Kinds :
          \E suspends \in (IF kind = "video" THEN BOOLEAN ELSE {FALSE}) :
             AdmitRequest(p, kind, suspends)
    \/ \E p \in Procs, ok \in BOOLEAN : PrepareDone(p, ok)
    \/ \E p \in Procs : FailoverEntry(p)
    \/ \E p \in Procs : LoopAcquire(p)
    \/ \E p \in Procs : CheckTried(p)
    \/ \E p \in Procs, code \in OutcomeCodes : BackendReturn(p, code)
    \/ \E p \in Procs : ExceptHTTP(p)
    \/ \E p \in Procs : FinallyRelease(p)
    \/ \E p \in Procs : AfterLoop(p)
    \/ \E p \in Procs, saved \in BOOLEAN : ~InTaskRun(p) /\ HandlerFinally(p, saved)
    \/ \E p \in Procs : Reset(p)

InitRuns ==
    /\ Init
    /\ per_account_concurrent = 1

SpecRuns == InitRuns /\ [][NextRuns]_vars

(***************************************************************************)
(* Claims about the pool.                                                  *)
(***************************************************************************)
\* a step in which acquire() returned a lease for id
LeaseGranted(id) ==
    /\ id \in DOMAIN accounts
    /\ id \in DOMAIN accounts'
    /\ accounts'[id].active_tasks = accounts[id].active_tasks + 1

\* a step in which acquire() raised
AcquireFailed ==
    /\ ret' # ret
    /\ ret'.op = "acquire"
    /\ ret'.error # NoExc

\* C1: under acquire(), release() of outstanding leases, mark_cooldown() and
\* clear_cooldown(), no account's active_tasks exceeds per_account_concurrent.
C1_ActiveWithinLimit ==
    \A id \in DOMAIN accounts :
        accounts[id].active_tasks <= per_account_concurrent

\* an account is saturated with two leases after it had been put in cooldown
C1_Witness ==
    \E id \in DOMAIN accounts :
        /\ per_account_concurrent = 2
        /\ accounts[id].active_tasks = per_account_concurrent
        /\ held[id] = 2
        /\ lastMark[id] # NoMark

\* C9: after mark_cooldown(id, s) at time t, no acquire() returns a lease for
\* id while now < t + max(1, s), unless clear_cooldown(id) or
\* add_or_update_account(id) came in between.
C9_NoLeaseInCooldown ==
    [][\A id \in AllIds :
          (LeaseGranted(id) /\ lastMark[id] # NoMark)
              => now >= lastMark[id]]_vars

\* a lease was returned for an account at the very end of its cooldown window
C9_Witness ==
    \E id \in DOMAIN accounts :
        /\ ret.op = "acquire"
        /\ ret.account_id = id
        /\ lastMark[id] # NoMark
        /\ now = lastMark[id]

\* C10: a failing acquire() raises AccountsUnavailable when an enabled account
\* is in cooldown at the moment of the failure and AccountsBusy otherwise, and
\* it changes no account state.
C10_FailureKind ==
    [][AcquireFailed =>
          /\ accounts' = accounts
          /\ candidates(accounts, now) = {}
          /\ IF \E id \in DOMAIN accounts' :
                   /\ accounts'[id].enabled
                   /\ accounts'[id].cooldown_until # NoneT
                   /\ accounts'[id].cooldown_until > now'
             THEN ret'.error = AccountsUnavailable
             ELSE ret'.error = AccountsBusy]_vars

\* acquire() failed with AccountsUnavailable while every account is in cooldown
C10_Witness ==
    /\ ret.op = "acquire"
    /\ ret.error = AccountsUnavailable
    /\ \A id \in DOMAIN accounts :
          accounts[id].cooldown_until # NoneT /\ accounts[id].cooldown_until > now

\* the accounts acquire() may lease at clock value t, as the contract names
\* them: enabled, not in cooldown, fewer tasks than the limit
Schedulable(accts, t, per) ==
    {id \in DOMAIN accts :
        /\ accts[id].enabled
        /\ ~in_cooldown(accts[id], t)
        /\ accts[id].semaphore > 0
        /\ accts[id].active_tasks < per}

\* C11: a lease returned by acquire() is for an account that was enabled, not
\* in cooldown and not saturated when acquire() was called, with the least
\* active_tasks among such accounts; that account's active_tasks grows by
\* exactly 1 and no other account changes.
C11_LeastLoadedLease ==
    [][\A id \in AllIds :
          held'[id] = held[id] + 1 =>
              /\ id \in Schedulable(accounts, now, per_account_concurrent)
              /\ \A other \in Schedulable(accounts, now, per_account_concurrent) :
                    accounts[id].active_tasks <= accounts[other].active_tasks
              /\ accounts'[id].active_tasks = accounts[id].active_tasks + 1
              /\ accounts'[id].semaphore = accounts[id].semaphore - 1
              /\ accounts'[id].cooldown_until = accounts[id].cooldown_until
              /\ accounts'[id].last_error = accounts[id].last_error
              /\ accounts'[id].enabled = accounts[id].enabled
              /\ DOMAIN accounts' = DOMAIN accounts
              /\ \A other \in DOMAIN accounts \ {id} :
                    accounts'[other] = accounts[other]
              /\ ret'.account_id = id]_vars

\* "b" was leased while "a", also schedulable, already ran a task
C11_Witness ==
    /\ per_account_concurrent = 2
    /\ DOMAIN accounts = {"a", "b"}
    /\ ret.op = "acquire"
    /\ ret.account_id = "b"
    /\ accounts["a"].active_tasks = 1
    /\ accounts["b"].active_tasks = 1
    /\ ~in_cooldown(accounts["a"], now)

\* C12: on a pool of two or more enabled, uncooled accounts with no
\* outstanding lease, two acquire() calls in a row with no release() in
\* between return leases for different accounts, whatever the tie-break.
C12_TwoAcquiresDiffer ==
    [][\A first \in AllIds, second \in AllIds :
          (/\ ret.op = "acquire"
           /\ ret.account_id = first
           /\ held = [id \in AllIds |-> IF id = first THEN 1 ELSE 0]
           /\ Cardinality(DOMAIN accounts) >= 2
           /\ \A id \in DOMAIN accounts :
                 accounts[id].enabled /\ ~in_cooldown(accounts[id], now)
           /\ held'[second] = held[second] + 1)
              => second # first]_vars

\* the second of two acquire() calls on a fresh pool with limit 2 returned "a"
C12_Witness ==
    /\ per_account_concurrent = 2
    /\ DOMAIN accounts = {"a", "b"}
    /\ ret.op = "acquire"
    /\ ret.account_id = "a"
    /\ held = [id \in AllIds |-> 1]
    /\ \A id \in DOMAIN accounts :
          accounts[id].cooldown_until = NoneT /\ accounts[id].active_tasks = 1

\* C13: release() never raises and never makes active_tasks negative, in any
\* order and number of calls, a repeated release of the same lease included;
\* release() of a lease whose account is not in the pool changes nothing.
C13_ReleaseSafe ==
    /\ [](\A id \in DOMAIN accounts : accounts[id].active_tasks >= 0)
    /\ [][ret'.op = "release" =>
             /\ ret'.error = NoExc
             /\ ret'.account_id \notin DOMAIN accounts =>
                   UNCHANGED <<accounts, per_account_concurrent, held>>]_vars

\* a lease of an account that is not in the pool was released, after "a" had
\* been released more often than it was leased
C13_Witness ==
    /\ DOMAIN accounts = {"a"}
    /\ ret.op = "release"
    /\ ret.account_id = "b"
    /\ accounts["a"].active_tasks = 0
    /\ accounts["a"].semaphore > per_account_concurrent

\* C14: after a successful credential upload for account X, X is not in
\* cooldown and has no last_error, whether X was in the pool before or was
\* added by the upload (an upload for the default id, when the pool has no
\* such account, adds none); clear_cooldown() of an id that is not in the pool
\* changes nothing.
C14_UploadClearsCooldown ==
    /\ (ret.op = "upload" /\ ret.error = NoExc) =>
          /\ ret.account_id # DefaultId => ret.account_id \in DOMAIN accounts
          /\ ret.account_id \in DOMAIN accounts =>
                /\ accounts[ret.account_id].cooldown_until = NoneT
                /\ ~in_cooldown(accounts[ret.account_id], now)
                /\ accounts[ret.account_id].last_error = "none"
    /\ \A id \in UploadIds \ DOMAIN accounts :
          clear_cooldown(accounts, id) = accounts

\* an upload has cleared a cooldown that had not run out, on an account that
\* holds a lease; the other id is not in the pool
C14_Witness ==
    /\ ret.op = "upload"
    /\ ret.error = NoExc
    /\ ret.account_id = "a"
    /\ ret.at > now
    /\ held["a"] = 1
    /\ accounts["a"].active_tasks = 1
    /\ "b" \notin DOMAIN accounts

(***************************************************************************)
(* Claims about the admission gate and the failover.                       *)
(***************************************************************************)
\* the coroutines that hold an admission slot
Holders ==
    {p \in Procs : proc[p].pc \in {"prepare", "failover", "loop", "check_tried",
                                   "generating", "except", "finally",
                                   "after_loop", "handler_finally"}}

\* the failover call of p has returned or raised
CallEnded(p) == proc[p].pc = "handler_finally" /\ proc[p].result # NoExc

\* a backend failure that is not an expired login
NonAuthFailure(e) == e # NoExc /\ e.code \notin {"ok", "cookies_expired"}

\* the call of p is handling a backend failure that is not an expired login
Failing(p) ==
    /\ proc[p].pc \in {"except", "finally", "handler_finally"}
    /\ NonAuthFailure(proc[p].exc)

\* the positions in p's lease history at which a backend was invoked
Invoked(p) == {i \in 1..Len(proc[p].leases) : proc[p].leases[i].outcome # "none"}

\* C2: the callers holding a slot never outnumber max_concurrent, and
\* active_tasks is their number.
C2_GateCount ==
    /\ Cardinality(Holders) <= max_concurrent
    /\ gate.active_tasks = Cardinality(Holders)

\* two callers hold the two slots of a gate of two
C2_Witness ==
    /\ max_concurrent = 2
    /\ Cardinality(Holders) = 2
    /\ \A p \in Procs : p \in Holders => proc[p].pc = "generating"

\* C3: acquire() on a full gate raises TooManyRequests at once, does not
\* suspend the caller and leaves active_tasks and the free slots unchanged.
C3_FullGateRejects ==
    [][\A p \in Procs :
          (/\ proc[p].pc = "idle"
           /\ proc'[p].pc # "idle"
           /\ Cardinality(Holders) = max_concurrent)
              => /\ proc'[p].pc = "done"
                 /\ proc'[p].response = TooManyRequests
                 /\ gate'.active_tasks = gate.active_tasks
                 /\ gate'.semaphore = gate.semaphore
                 /\ running' = NoProc]_vars

\* a caller was turned away while another one held the only slot
C3_Witness ==
    \E p, q \in Procs :
        /\ max_concurrent = 1
        /\ proc[p].pc = "done"
        /\ proc[p].response = TooManyRequests
        /\ proc[q].pc = "generating"
        /\ gate.active_tasks = 1

\* C4: no lease is released twice, and when the failover call has returned or
\* raised every lease it obtained has been released exactly once.
C4_LeaseReleasedOnce ==
    \A p \in Procs :
        \A i \in 1..Len(proc[p].leases) :
            /\ proc[p].leases[i].released <= 1
            /\ (proc[p].pc = "handler_finally" \/ i < Len(proc[p].leases))
                  => proc[p].leases[i].released = 1

\* a video call ended after it leased an account it had already tried
C4_Witness ==
    \E p \in Procs :
        /\ CallEnded(p)
        /\ proc[p].kind = "video"
        /\ Len(proc[p].leases) = 2
        /\ proc[p].leases[1].account_id = proc[p].leases[2].account_id
        /\ proc[p].leases[1].outcome = "cookies_expired"
        /\ proc[p].leases[2].outcome = "none"
        /\ proc[p].leases[2].released = 1

C6_OtherFailurePropagates ==
    /\ [](\A p \in Procs :
            (CallEnded(p) /\ NonAuthFailure(proc[p].exc))
                => proc[p].result = proc[p].exc)
    /\ [][\A p \in Procs :
             (Failing(p) /\ running = p)
                => /\ Len(proc'[p].leases) <= Len(proc[p].leases)
                   /\ proc'[p].pc \in {"except", "finally", "handler_finally", "done"}
                   /\ \A id \in DOMAIN accounts :
                        /\ id \in DOMAIN accounts'
                        /\ accounts'[id].cooldown_until = accounts[id].cooldown_until
                        /\ accounts'[id].last_error = accounts[id].last_error]_vars

\* a call ended with the timeout its second backend raised, after the first
\* account's login had expired
C6_Witness ==
    \E p \in Procs :
        /\ CallEnded(p)
        /\ Len(proc[p].leases) = 2
        /\ proc[p].leases[1].outcome = "cookies_expired"
        /\ proc[p].exc = GenerationTimeout(proc[p].lease)
        /\ proc[p].result = proc[p].exc

\* C7: a call in which no backend succeeded and none raised another failure
\* ends with the AuthExpired failure of the last account it invoked, or with
\* AccountsUnavailable when it leased no account at all.
C7_ExhaustedOutcome ==
    \A p \in Procs :
        (/\ CallEnded(p)
         /\ \A i \in 1..Len(proc[p].leases) :
                proc[p].leases[i].outcome \in {"none", "cookies_expired"})
            => IF Invoked(p) # {}
               THEN \E i \in Invoked(p) :
                       /\ \A j \in Invoked(p) : j <= i
                       /\ proc[p].result = AuthExpired(proc[p].leases[i].account_id)
               ELSE /\ proc[p].leases = <<>>
                    /\ proc[p].result = Exc(503, "accounts_unavailable", NoId)

\* both accounts were invoked and both raised AuthExpired
C7_Witness ==
    \E p \in Procs :
        /\ CallEnded(p)
        /\ Len(proc[p].leases) = 2
        /\ proc[p].leases[1].outcome = "cookies_expired"
        /\ proc[p].leases[2].outcome = "cookies_expired"
        /\ proc[p].leases[1].account_id # proc[p].leases[2].account_id
        /\ proc[p].result = AuthExpired(proc[p].leases[2].account_id)

\* C8 as claimed: a call that starts while every enabled account is saturated
\* and none is in cooldown ends with AccountsBusy (429 accounts_busy).
C8_BusyPropagates ==
    \A p \in Procs :
        (CallEnded(p) /\ proc[p].saturated_at_entry)
            => proc[p].result = AccountsBusy

\* C8 amended: such a call ends with 503 accounts_unavailable and leases no
\* account.
C8_BusyBecomesUnavailable ==
    \A p \in Procs :
        (CallEnded(p) /\ proc[p].saturated_at_entry)
            => /\ proc[p].result = Exc(503, "accounts_unavailable", NoId)
               /\ proc[p].leases = <<>>

\* a call ended that had found the only account saturated by another request,
\* a state in which acquire() raises AccountsBusy
C8_Witness ==
    \E p, q \in Procs :
        /\ CallEnded(p)
        /\ proc[p].saturated_at_entry
        /\ proc[q].pc = "generating"
        /\ acquire_error(accounts, now) = AccountsBusy
        /\ candidates(accounts, now) = {}

(***************************************************************************)
(* Claims about the task manager.                                          *)
(***************************************************************************)
StatusSteps ==
    {<<"queued", "processing">>, <<"processing", "succeeded">>,
     <<"processing", "failed">>}

\* C15: a task is queued when create_task returns it, and its status then
\* changes only by queued -> processing, processing -> succeeded and
\* processing -> failed; a succeeded or failed task never changes status,
\* under any interleaving of task runs, binding callbacks and get_task calls.
C15_StatusMonotonic ==
    /\ [](resp.op = "create_task" /\ resp.status = 200 =>
             /\ resp.task.status = "queued"
             /\ tasks[resp.id].status = "queued")
    /\ [][/\ DOMAIN tasks \subseteq DOMAIN tasks'
          /\ \A id \in DOMAIN tasks' \ DOMAIN tasks :
                tasks'[id].status = "queued"
          /\ \A id \in DOMAIN tasks :
                tasks'[id].status # tasks[id].status =>
                    <<tasks[id].status, tasks'[id].status>> \in StatusSteps]_vars

\* one task has succeeded and the other has failed, both runs being over
C15_Witness ==
    /\ DOMAIN tasks = TaskIds
    /\ tasks["t1"].status = "succeeded"
    /\ tasks["t2"].status = "failed"
    /\ run = [id \in TaskIds |-> "done"]
    /\ ~Locked

\* C16: in every reachable state a task's result is set iff its status is
\* succeeded and its error is set iff its status is failed.
C16_ResultXorError ==
    \A id \in DOMAIN tasks :
        /\ tasks[id].result # NoResult <=> tasks[id].status = "succeeded"
        /\ tasks[id].error # NoError <=> tasks[id].status = "failed"

\* after a restart the table holds a succeeded task with its result, a failed
\* one with its error
C16_Witness ==
    /\ boots = 1
    /\ DOMAIN tasks = TaskIds
    /\ \E id \in TaskIds :
          tasks[id].status = "succeeded" /\ tasks[id].result.url = "url"
    /\ \E id \in TaskIds :
          /\ tasks[id].status = "failed"
          /\ tasks[id].error.code = "generation_timeout"
          /\ tasks[id].result = NoResult

\* C17: every id create_task has returned stays known: get_task(id) succeeds
\* in every later state, also after a restart, where it returns the last
\* persisted status; get_task fails with 404 task_not_found for ids that were
\* never created, and only for ids that were never returned or persisted.
C17_TaskNeverLost ==
    /\ returned \subseteq DOMAIN tasks
    /\ \A id \in returned : get_task(tasks, id).status = 200
    /\ resp.op = "get_task" =>
          /\ resp.id \in returned =>
                /\ resp.status = 200
                /\ resp.task.status = store.tasks[resp.id].status
          /\ resp.id \notin allocated =>
                resp.status = 404 /\ resp.code = "task_not_found"
          /\ resp.status = 404 =>
                resp.id \notin returned /\ resp.id \notin DOMAIN store.tasks

\* after a restart get_task answered for a task whose run had begun: it is
\* still processing and no coroutine runs it
C17_Witness ==
    /\ boots = 1
    /\ resp.op = "get_task"
    /\ resp.id \in returned
    /\ resp.status = 200
    /\ resp.task.status = "processing"
    /\ run[resp.id] = "none"

\* C18: a task reloaded from the store at startup is never run again, and its
\* status and all its other fields stay exactly as they were persisted, for
\* the rest of the life of the process.
C18_ReloadedNeverChanges ==
    boots >= 1 =>
        \A id \in DOMAIN loaded.tasks :
            /\ id \in DOMAIN tasks
            /\ run[id] = "none"
            /\ tasks[id] = loaded.tasks[id]

\* C19: when the process dies inside _persist_locked, the store file read at
\* the next startup is the complete snapshot from before the mutation or the
\* complete snapshot after it, never a partial one.
C19_AtomicStore ==
    /\ [](store.kind # "partial")
    /\ [][(boots' = boots + 1 /\ Locked) =>
             /\ loaded' \in {op.before, payload(tasks)}
             /\ loaded'.kind # "partial"]_vars

\* the process died while the temp file was half written: the temp file is
\* left behind, and the table read at startup misses the task that was being
\* created
C19_Witness ==
    /\ boots = 1
    /\ ~Locked
    /\ temp = PartialFile
    /\ loaded.kind = "json"
    /\ DOMAIN loaded.tasks = {"t1"}
    /\ allocated = TaskIds
    /\ DOMAIN tasks = {"t1"}

\* how far a status is on the way queued -> processing -> succeeded | failed
Rank(status) ==
    CASE status = "queued" -> 0
      [] status = "processing" -> 1
      [] OTHER -> 2

\* C20: whenever the lock is free the task table in the store file equals the
\* table in memory, and the store never holds a task state that the table in
\* memory has not reached.
C20_StoreMatchesMemory ==
    /\ ~Locked => store.tasks = payload(tasks).tasks
    /\ \A id \in DOMAIN store.tasks :
          /\ id \in DOMAIN tasks
          /\ Rank(store.tasks[id].status) <= Rank(tasks[id].status)

\* a step in which _run_task records the failure of task id
Fails(id) ==
    /\ id \in DOMAIN tasks
    /\ id \in DOMAIN tasks'
    /\ tasks[id].status # "failed"
    /\ tasks'[id].status = "failed"

BoundWindow(id) ==
    /\ run[id] = "bound"
    /\ ~(Locked /\ op.id = id)

\* C22: once the binding callback has returned and until the processor
\* ends, the task is processing with its provider_task_id set, in memory
\* and in the store file, so the binding is persisted strictly before the
\* task becomes succeeded or failed; a get_task for the task answered in
\* that window shows status processing and the provider_task_id.
C22_BindingPersistedEarly ==
    \A id \in TaskIds :
        BoundWindow(id) =>
            /\ id \in DOMAIN tasks
            /\ tasks[id].status = "processing"
            /\ tasks[id].provider_task_id # PyNone
            /\ store.kind = "json"
            /\ id \in DOMAIN store.tasks
            /\ store.tasks[id].status = "processing"
            /\ store.tasks[id].provider_task_id = tasks[id].provider_task_id
            /\ (resp.op = "get_task" /\ resp.id = id /\ id \in returned) =>
                   /\ resp.status = 200
                   /\ resp.task.status = "processing"
                   /\ resp.task.provider_task_id = tasks[id].provider_task_id

\* get_task has just answered for a task whose processor is between its
\* binding and its end
C22_Witness ==
    \E id \in returned :
        /\ BoundWindow(id)
        /\ resp.op = "get_task"
        /\ resp.id = id
        /\ resp.task.status = "processing"
        /\ resp.task.provider_task_id = "s1"
        /\ store.tasks[id].provider_task_id = "s1"

(***************************************************************************)
(* Claims about the HTTP image client.                                     *)
(***************************************************************************)
\* the requests a call makes after _ensure_session has returned
AfterBootstrap == {"rotate", "upload_init", "upload_finalize", "generate", "download"}

\* C23: under any interleaving of generate() calls on one client, at most
\* one caller runs the bootstrap at a time, and no rotation, upload or
\* generate request is sent before a bootstrap has completed successfully
\* (the tokens are set).
C23_BootstrapBeforeRequests ==
    /\ Cardinality({c \in Callers : call[c].pc = "init_tokens"}) <= 1
    /\ \A q \in sent : q.req \in AfterBootstrap => q.tokens

\* C24: on a client whose stored cookies have no __Secure-1PSID, every
\* generate() call, the first and each later one, ends with cookies_expired
\* and the client sends no rotation, upload or generate request.
C24_MissingCookieFailsEveryCall ==
    (\A i \in 1..Len(raw_cookies) : raw_cookies[i].name # PSID) =>
        /\ \A q \in sent : q.req \notin AfterBootstrap
        /\ \A c \in Callers : call[c].pc = "done" => call[c].exc = _cookies_expired

\* the step in which the client builds its cookie jar from the stored list
Bootstraps == ~http._session /\ http'._session /\ raw_cookies # <<>>

\* the values of the candidates of an auth cookie name in a domain group that
\* have not expired
Unexpired(name, group) ==
    {raw_cookies[i].value : i \in
        {j \in 1..Len(raw_cookies) :
            /\ raw_cookies[j].name = name
            /\ _auth_domain_group(_normalize_cookie_domain(raw_cookies[j].domain)) = group
            /\ ~(raw_cookies[j].expirationDate # 0 /\ raw_cookies[j].expirationDate < now)}}
BothGroups(name) == Unexpired(name, 0) # {} /\ Unexpired(name, 1) # {}
OtherName(name) == IF name = PSID THEN PSIDTS ELSE PSID

StatusChecked == {"upload_init", "upload_finalize", "stream_generate"}
GenerationFailed == _build_http_exception(500, "generation_failed")

\* the failure kind the claim gives for a status code, NoExc for none
KindOfStatus(status) ==
    CASE status \in {401, 403} -> _cookies_expired
      [] status = 429 -> _rate_limited
      [] status \in 500..599 -> ServiceUnavailable
      [] status \in 400..499 \ {401, 403, 429} -> GenerationFailed
      [] OTHER -> NoExc

\* C27 as stated: every non-2xx status of an upload-init, upload-finalize or
\* generate response raises exactly the failure kind of its status (401/403
\* AuthExpired, 429 RateLimited, 5xx service_unavailable, other 4xx
\* GenerationFailed), and a 2xx status raises nothing.
C27_ByStatusOnly ==
    \A c \in Callers :
        (call[c].stage \in StatusChecked /\ call[c].response.status > 0) =>
            IF call[c].response.status \in 200..299
            THEN call[c].raised = NoExc
            ELSE /\ call[c].raised # NoExc
                 /\ call[c].raised = KindOfStatus(call[c].response.status)

\* C27 amended: a response whose final URL is a Google sign-in page raises
\* AuthExpired whatever its status; any other response raises the failure
\* kind of its status when the status is 400 or more, and nothing when it is
\* below 400.
C27_SignInThenStatus ==
    \A c \in Callers :
        (call[c].stage \in StatusChecked /\ call[c].response.status > 0) =>
            /\ call[c].raised =
                  IF call[c].response.signin
                  THEN _cookies_expired
                  ELSE KindOfStatus(call[c].response.status)
            /\ call[c].raised # NoExc =>
                  call[c].pc = "done" /\ call[c].exc = call[c].raised

\* a generate request was answered 200 from a sign-in page and the call
\* failed with cookies_expired
C27_Witness ==
    /\ call["c1"].stage = "stream_generate"
    /\ call["c1"].response = Response(200, TRUE, FALSE)
    /\ call["c1"].raised = _cookies_expired
    /\ call["c1"].pc = "done"

\* the values with every array replaced by its elements
RECURSIVE Elements(_)
Elements(vs) ==
    IF vs = <<>> THEN <<>>
    ELSE (IF vs[1].type = "array" THEN vs[1].items ELSE <<vs[1]>>) \o Elements(Tail(vs))

HandedToBackend(r, i) ==
    \/ r.leases[i].outcome # "none"
    \/ i = Len(r.leases) /\ r.pc = "generating"

InFailoverCall(p) ==
    proc[p].pc \in {"failover", "loop", "check_tried", "generating", "except",
                    "finally", "after_loop"}

C28_AtMostOnce ==
    \A p \in Procs :
        LET r == proc[p] IN
        /\ Len(r.leases) <= r.attempt
        /\ r.attempt <= r.max_attempts
        /\ r.pc # "failover" /\ InFailoverCall(p) =>
               r.max_attempts = Cardinality(DOMAIN accounts)
        /\ \A i, j \in 1..Len(r.leases) :
               (i < j /\ r.leases[i].account_id = r.leases[j].account_id) =>
                   ~(HandedToBackend(r, i) /\ HandedToBackend(r, j))
        /\ \A i, j \in 1..Len(r.leases) :
               (i < j /\ r.leases[i].outcome = "cookies_expired"
                      /\ r.leases[i].account_id = r.leases[j].account_id) =>
                   ~HandedToBackend(r, j)

\* C28: a failover call makes at most accounts_total lease attempts and hands
\* no account to its backend twice, in particular not one whose backend
\* raised AuthExpired in this call; and when every backend call returns or
\* raises, the failover call ends.
C28_BoundedFailover ==
    /\ []C28_AtMostOnce
    /\ \A p \in Procs : InFailoverCall(p) ~> (proc[p].pc = "handler_finally")

\* a call leased again the account whose backend had raised AuthExpired,
\* after its cooldown ran out, and ended without calling the backend again
C28_Witness ==
    \E p \in Procs :
        /\ proc[p].pc = "handler_finally"
        /\ proc[p].attempt = 2
        /\ Len(proc[p].leases) = 2
        /\ proc[p].leases[1].account_id = proc[p].leases[2].account_id
        /\ proc[p].leases[1].outcome = "cookies_expired"
        /\ proc[p].leases[2].outcome = "none"
        /\ proc[p].result = AuthExpired(proc[p].leases[1].account_id)

\* the leases out on the entry of id that is in the pool now
OnCurrentEntry(id) == held[id] - stale[id]

\* C29: when add_or_update_account has replaced an account with a lease out,
\* the release of that lease does not raise the capacity of the replacement:
\* the entry in the pool never has more than per_account_concurrent leases
\* out, and its active_tasks is the number of leases out on it.
C29_ReplacementKeepsLimit ==
    \A id \in DOMAIN accounts :
        /\ OnCurrentEntry(id) <= per_account_concurrent
        /\ accounts[id].active_tasks = OnCurrentEntry(id)

\* the i-th lease of p ended in AuthExpired and its cooldown window still runs
WindowRuns(p, i) ==
    /\ proc[p].leases[i].outcome = "cookies_expired"
    /\ proc[p].leases[i].cooldown_to # NoneT
    /\ now < proc[p].leases[i].cooldown_to

\* p is between its except clause and its finally clause after an AuthExpired
MarkedNotReleased(p) == proc[p].pc = "finally" /\ proc[p].pending = "continue"

\* when the finally clause is about to release the lease of a backend that
\* raised AuthExpired, the account is already in cooldown
CooldownBeforeRelease ==
    \A p \in Procs :
        MarkedNotReleased(p) =>
            /\ LastLease(proc[p]).released = 0
            /\ accounts[proc[p].lease].cooldown_until = LastLease(proc[p]).cooldown_to
            /\ accounts[proc[p].lease].active_tasks >= 1

\* C30 as stated: the cooldown is set before the lease is released, and from
\* the failure to the end of the cooldown window the account is never free
\* and out of cooldown.
C30_NoGapEver ==
    /\ CooldownBeforeRelease
    /\ \A p \in Procs : \A i \in 1..Len(proc[p].leases) :
          WindowRuns(p, i) =>
              proc[p].leases[i].account_id \notin candidates(accounts, now)

\* C30 amended: the same, unless cookies were uploaded for the account after
\* the failure, which clears the cooldown.
C30_NoGapUnlessUpload ==
    /\ CooldownBeforeRelease
    /\ \A p \in Procs : \A i \in 1..Len(proc[p].leases) :
          (WindowRuns(p, i) /\ lastMark[proc[p].leases[i].account_id] # NoMark) =>
              proc[p].leases[i].account_id \notin candidates(accounts, now)
    /\ \A id \in DOMAIN accounts :
          (lastMark[id] # NoMark /\ now < lastMark[id]) =>
              id \notin candidates(accounts, now)

\* while a call waits for the backend of its second account, the first one,
\* released after its AuthExpired, has a free slot and is in cooldown
C30_Witness ==
    \E p \in Procs :
        /\ running = NoProc
        /\ proc[p].pc = "generating"
        /\ Len(proc[p].leases) = 2
        /\ WindowRuns(p, 1)
        /\ proc[p].leases[1].released = 1
        /\ ~locked(accounts[proc[p].leases[1].account_id])
        /\ in_cooldown(accounts[proc[p].leases[1].account_id], now)

(***************************************************************************)
(* Claims about requests and task runs behind the gate.                    *)
(***************************************************************************)
\* no handler and no task run is between its admission and its end
AllFinished ==
    /\ running = NoProc
    /\ \A p \in Procs : proc[p].pc \in {"idle", "done"} /\ ~InTaskRun(p)

\* C31: once every image request, video request and task run has ended,
\* whatever each ended with, the gate counts no active task and has all its
\* slots, and every account counts no active task and has all its permits
C31_AllFreeWhenFinished ==
    AllFinished =>
        /\ gate.active_tasks = 0
        /\ gate.semaphore = max_concurrent
        /\ \A id \in DOMAIN accounts :
              /\ accounts[id].active_tasks = 0
              /\ accounts[id].semaphore = per_account_concurrent

\* a task run that failed in the backend and a request that was turned away
\* at the gate have both ended
C31_Witness ==
    /\ AllFinished
    /\ run["t1"] = "done"
    /\ tasks["t1"].status = "failed"
    /\ tasks["t1"].error.code = "generation_timeout"
    /\ proc["p2"].pc = "done"
    /\ proc["p2"].response = TooManyRequests

\* the sum of active_tasks over the accounts ids
RECURSIVE active_leases(_, _)
active_leases(accts, ids) ==
    IF ids = {} THEN 0
    ELSE LET id == CHOOSE x \in ids : TRUE
         IN  accts[id].active_tasks + active_leases(accts, ids \ {id})

\* C32: in every reachable state the accounts' active_tasks add up to at most
\* the gate's active_tasks: a lease is only held inside an admission slot
C32_LeasesWithinSlots ==
    active_leases(accounts, DOMAIN accounts) <= gate.active_tasks

\* a task run and a video request each hold a slot and a lease
C32_Witness ==
    /\ InTaskRun("p1")
    /\ proc["p1"].pc = "generating"
    /\ proc["p2"].pc = "generating"
    /\ proc["p2"].kind = "video"
    /\ active_leases(accounts, DOMAIN accounts) = 2
    /\ gate.active_tasks = 2

\* C33: a task run that starts while the gate is full does not wait: its
\* task goes from queued to processing, then to failed with the error of
\* TooManyRequests (code rate_limit_exceeded), and the run is over; no account
\* is leased and the gate's count stays as it was
C33_SaturatedRunFails ==
    [][\A p \in TaskRunners :
          LET t == TaskOf(p) IN
          /\ (run[t] = "scheduled" /\ run'[t] # "scheduled") =>
                /\ tasks[t].status = "queued"
                /\ tasks'[t].status = "processing"
                /\ proc'[p].pc = "admission"
                /\ gate' = gate
                /\ accounts' = accounts
          /\ (proc[p].pc = "admission" /\ gate_locked(gate)) =>
                /\ tasks[t].status = "processing"
                /\ tasks'[t].status = "failed"
                /\ tasks'[t].error = ErrorDetail("Too many concurrent requests",
                                                 "server_error", "rate_limit_exceeded")
                /\ tasks'[t].result = NoResult
                /\ run'[t] = "done"
                /\ proc'[p].leases = <<>>
                /\ gate' = gate
                /\ accounts' = accounts]_vars

\* the task failed at the gate while a request held the only slot and a lease
C33_Witness ==
    /\ run["t1"] = "done"
    /\ tasks["t1"].status = "failed"
    /\ tasks["t1"].error.code = "rate_limit_exceeded"
    /\ gate.active_tasks = max_concurrent
    /\ proc["p2"].pc = "generating"

(***************************************************************************)
(* Claims about the end of a task run.                                     *)
(***************************************************************************)
\* the task is in its final state
Finished(id) == id \in DOMAIN tasks /\ tasks[id].status \in {"succeeded", "failed"}

\* C34: every task create_task has put in the table is eventually succeeded
\* or failed, given that its processor call returns or raises, the process
\* lives and the store writes go through
C34_EveryTaskFinishes ==
    \A id \in TaskIds : (id \in DOMAIN tasks) ~> Finished(id)

\* both tasks were created and have ended, one each way, their runs over
C34_Witness ==
    /\ \A id \in TaskIds : Finished(id) /\ run[id] = "done"
    /\ tasks["t1"].status = "succeeded"
    /\ tasks["t2"].status = "failed"
    /\ ~Locked

\* the task has a result / an error
HasResult(id) == tasks[id].result # NoResult
HasError(id) == tasks[id].error # NoError

\* C35: with store writes that may raise, no task is ever failed with a
\* result, none has a result and an error, and none goes from succeeded to
\* failed
C35_ConsistentWhenWriteFails ==
    /\ [](\A id \in DOMAIN tasks :
             /\ ~(tasks[id].status = "failed" /\ HasResult(id))
             /\ ~(HasResult(id) /\ HasError(id)))
    /\ [][\A id \in DOMAIN tasks :
             tasks[id].status = "succeeded" => tasks'[id].status # "failed"]_vars

\* C36: a provider_task_id the binding callback has set is never put back to
\* null by a later mutation of the task, whatever the processor returns or
\* raises
C36_BoundIdNeverReset ==
    [][\A id \in DOMAIN tasks :
          (run[id] = "bound" /\ tasks[id].provider_task_id # PyNone) =>
              tasks'[id].provider_task_id # PyNone]_vars

\* the stored cookie at position i has an expiry that is in the past
Expired(i) == raw_cookies[i].expirationDate # 0 /\ raw_cookies[i].expirationDate < now

\* C37: the jar the bootstrap builds never holds, for an auth cookie name on
\* .google.com, the value of a stored cookie of that name that has expired;
\* and when every stored __Secure-1PSID cookie has expired the bootstrap
\* fails with cookies_expired
C37_ExpiredNeverUsed ==
    [][Bootstraps =>
          /\ \A i \in 1..Len(raw_cookies) :
                (raw_cookies[i].name \in {PSID, PSIDTS} /\ Expired(i)) =>
                    jar_get(http'.cookies, raw_cookies[i].name, ".google.com")
                        # raw_cookies[i].value
          /\ (\A i \in 1..Len(raw_cookies) : raw_cookies[i].name = PSID => Expired(i)) =>
                \E c \in Callers :
                    call'[c].pc = "done" /\ call'[c].exc = _cookies_expired]_vars

(***************************************************************************)
(* Claims about the frame decoder's loop.                                  *)
(***************************************************************************)
\* (count, units) is the longest prefix of s[start:] of at most n units
LongestPrefix(s, start, n, count, units) ==
    /\ start + count <= Len(s)
    /\ units = utf16_length(Slice(s, start, start + count))
    /\ units <= n
    /\ \A c \in (count + 1)..(Len(s) - start) :
          utf16_length(Slice(s, start, start + c)) > n

\* the declared length n is more than what is left of s from start
ExceedsText(s, start, n) == utf16_length(Slice(s, start, Len(s))) < n

\* n units from start end in the middle of a non-BMP character
SplitsNonBmp(s, start, n) ==
    \E c \in 0..(Len(s) - start - 1) :
        /\ utf16_length(Slice(s, start, start + c)) = n - 1
        /\ At(s, start + c) = NonBmp

\* C38: _get_char_count_for_utf16_units(s, start, n) gives the longest prefix
\* of s[start:] of at most n UTF-16 units and its units; the decoder accepts
\* a frame only when the units are exactly n; a frame whose length is more
\* than the text left, or ends inside a non-BMP character, ends the decoding;
\* consumed_pos grows with every accepted frame and the loop comes to an end
C38_DecoderCountsAndEnds ==
    /\ [][LET d == decoding
              e == decoding'
          IN  /\ d.accepted = 0 =>
                    \A start \in 0..Len(response_text),
                       n \in 0..(2 * Len(response_text) + 1) :
                    LET found == _get_char_count_for_utf16_units(response_text, start, n)
                    IN  LongestPrefix(response_text, start, n, found[1], found[2])
              /\ e.accepted > d.accepted =>
                    /\ e.call.units = e.call.utf16_units
                    /\ e.consumed_pos > d.consumed_pos
              /\ e.call.made =>
                    /\ LongestPrefix(response_text, e.call.start_idx, e.call.utf16_units,
                                     e.call.count, e.call.units)
                    /\ (\/ ExceedsText(response_text, e.call.start_idx, e.call.utf16_units)
                        \/ SplitsNonBmp(response_text, e.call.start_idx,
                                        e.call.utf16_units)) =>
                          /\ e.pc = "done"
                          /\ e.accepted = d.accepted
                          /\ e.parsed_frames = d.parsed_frames
                    /\ e.call.units = e.call.utf16_units => e.accepted = d.accepted + 1]_vars
    /\ (decoding.pc = "loop") ~> (decoding.pc = "done")

\* two frames were accepted, then one that ends inside a non-BMP character
\* ended the decoding
C38_Witness ==
    /\ decoding.pc = "done"
    /\ decoding.accepted = 1
    /\ decoding.parsed_frames = <<JNumber(2)>>
    /\ decoding.call.made
    /\ SplitsNonBmp(response_text, decoding.call.start_idx, decoding.call.utf16_units)

(***************************************************************************)
(* Claims about the Jimeng video generator.                                *)
(***************************************************************************)
\* C39: generate calls on_binding at most once, with a submit id that is not
\* None and is the first one a captured line gave, in the step that follows
\* _wait_for_binding after the prompt was submitted; no later response changes
\* the submit id of the binding, and nothing calls on_binding once the call
\* waits for the video, has returned or has raised
C39_BindingReportedOnce ==
    [][LET g == generation
           e == generation'
       IN  /\ Len(e.invoked) <= 1
           /\ e.invoked # g.invoked =>
                /\ g.pc = "wait_binding"
                /\ g.submitted
                /\ e.pc = "on_binding"
                /\ e.invoked[1].submit_id # PyNone
                /\ g.observed # <<>>
                /\ e.invoked[1].submit_id = g.observed[1]
           /\ g.binding.submit_id # PyNone => e.binding.submit_id = g.binding.submit_id
           /\ g.pc \in {"on_binding", "wait_generation", "download", "returned", "raised"}
                => e.invoked = g.invoked]_vars

\* the call returned after the callback got "s1", the first of two submit
\* ids the captured lines gave
C39_Witness ==
    /\ generation.pc = "returned"
    /\ generation.observed = <<"s1", "s2">>
    /\ Len(generation.invoked) = 1
    /\ generation.invoked[1].submit_id = "s1"
    /\ generation.provider_task_id = "s1"


\* what the claim about _asset_matches_binding speaks of: a submit_id field
\* equal to the submit id, and an item-id field that holds one of the item
\* ids, at any depth, the JSON texts held by strings included; and a text
\* that occurs in a key or in a string at any depth
RECURSIVE HasSubmitIdField(_, _)
HasSubmitIdField(node, submit_id) ==
    CASE node.type = "object" ->
            \E i \in 1..Len(node.items) :
                \/ /\ node.items[i][1] = <<"submit_id">>
                   /\ node.items[i][2] = JString(submit_id)
                \/ HasSubmitIdField(node.items[i][2], submit_id)
      [] node.type = "array" ->
            \E i \in 1..Len(node.items) : HasSubmitIdField(node.items[i], submit_id)
      [] node.type = "string" ->
            /\ json_loads(node.s).ok
            /\ HasSubmitIdField(json_loads(node.s).value, submit_id)
      [] OTHER -> FALSE
RECURSIVE HasItemIdField(_, _)
HasItemIdField(node, item_ids) ==
    CASE node.type = "object" ->
            \E i \in 1..Len(node.items) :
                \/ /\ contains(node.items[i][1], <<"item_id">>)
                   /\ \E id \in item_ids :
                        \/ node.items[i][2] = JString(id)
                        \/ /\ node.items[i][2].type = "array"
                           /\ \E j \in 1..Len(node.items[i][2].items) :
                                node.items[i][2].items[j] = JString(id)
                \/ HasItemIdField(node.items[i][2], item_ids)
      [] node.type = "array" ->
            \E i \in 1..Len(node.items) : HasItemIdField(node.items[i], item_ids)
      [] node.type = "string" ->
            /\ json_loads(node.s).ok
            /\ HasItemIdField(json_loads(node.s).value, item_ids)
      [] OTHER -> FALSE
RECURSIVE OccursIn(_, _)
OccursIn(node, text) ==
    CASE node.type = "object" ->
            \E i \in 1..Len(node.items) :
                contains(node.items[i][1], text) \/ OccursIn(node.items[i][2], text)
      [] node.type = "array" -> \E i \in 1..Len(node.items) : OccursIn(node.items[i], text)
      [] node.type = "string" -> contains(node.s, text)
      [] OTHER -> FALSE

\* C40: with a submit id that is not empty, _asset_matches_binding is true of
\* an asset that has, at any depth, a submit_id field equal to the submit id
\* or an item-id field that holds one of the item ids; it is false when the
\* submit id is empty, and when neither the submit id nor any item id
\* occurs anywhere in the asset
C40_MatchesFieldsNotAbsentIds ==
    matching.called =>
        LET m == matching
            item_ids == {m.provider_item_ids[k] : k \in 1..Len(m.provider_item_ids)}
        IN  /\ /\ m.submit_id # <<>>
               /\ \/ HasSubmitIdField(m.asset, m.submit_id)
                  \/ HasItemIdField(m.asset, item_ids)
               => m.result
            /\ \/ m.submit_id = <<>>
               \/ /\ ~OccursIn(m.asset, m.submit_id)
                  /\ \A id \in item_ids : ~OccursIn(m.asset, id)
               => ~m.result

\* the submit id was found in the JSON text a string of the asset holds
C40_Witness ==
    /\ matching.called
    /\ matching.result
    /\ matching.submit_id = <<"expected-id">>
    /\ matching.asset =
         JObject(<<<<<<"extra">>,
                     JString(json_dumps(
                         JObject(<<<<<<"submit_id">>, JString(<<"expected-id">>)>>>>)))>>>>)

=============================================================================
